---------------------------- MODULE Spec2Model ----------------------------
(***************************************************************************)
(* A model of the itertools combinators of vm/src/stdlib/itertools.rs.     *)
(* Every combinator is an object (a record of the fields of its struct);   *)
(* one action is one whole call of its next().  Each specification         *)
(* constructs one combinator and advances it; the objects of the other     *)
(* combinators are absent (Idle) in that specification.                    *)
(***************************************************************************)
EXTENDS Integers, Sequences, FiniteSets, TLC

VARIABLES
    tee,      \* PyItertoolsTee cursors and their shared PyItertoolsTeeData
    groupby,  \* PyItertoolsGroupBy and the groupers it has issued
    chain,    \* PyItertoolsChain
    cycle,    \* PyItertoolsCycle
    islice,   \* PyItertoolsIslice
    product,  \* PyItertoolsProduct
    combinations,  \* PyItertoolsCombinations
    permutations,  \* PyItertoolsPermutations
    ziplongest,  \* PyItertoolsZipLongest
    cwr,  \* PyItertoolsCombinationsWithReplacement
    takewhile,  \* PyItertoolsTakewhile
    repeat_it,  \* PyItertoolsRepeat
    pairwise, \* PyItertoolsPairwise
    compress, \* PyItertoolsCompress
    dropwhile,  \* PyItertoolsDropwhile
    pc,       \* the calls in flight when calls are followed step by step:
              \* their positions, locals and the lock guards they hold
    built,    \* the outcome of a constructor call that is followed on its own
    upstream, \* the cursors over the arguments of that call
    ret,      \* the outcome of the most recent call
    obs       \* what the caller has observed so far (history, not program state)

vars == <<tee, groupby, chain, cycle, islice, product, combinations, permutations, ziplongest, cwr, takewhile, repeat_it, pairwise,
          compress, dropwhile, pc,
          built, upstream, ret, obs>>

(***************************************************************************)
(* Bounds of the model.                                                    *)
(***************************************************************************)
MaxTeeLen == 3       \* longest source given to tee
MaxTeeN == 3         \* largest n given to tee
MaxTeeCursors == 3   \* most cursors on one buffer, copies included
MaxGroupLen == 4     \* longest source given to groupby
MaxChainSources == 2 \* most sources given to chain
MaxChainLen == 2     \* longest source given to chain
MaxCycleLen == 3     \* longest source given to cycle
MaxCycleCalls == 8   \* calls of cycle's next() that are followed
UsizeBits == 5       \* width of usize (64 in the build), scaled down
MaxIsliceArg == 7    \* largest start, stop or step given to islice
MaxIsliceLen == 10   \* longest source given to islice
MaxProductArgs == 2  \* most iterables given to product
MaxPoolSize == 3     \* largest pool of product
MaxCombN == 5        \* largest pool of combinations
MaxPermN == 4        \* largest pool of permutations
MaxCwrN == 3         \* largest pool and r of combinations_with_replacement
MaxTakeLen == 3      \* longest source given to takewhile
MaxCompressLen == 3  \* longest data and selector source given to compress
MaxDropLen == 3      \* longest source given to dropwhile
MaxRepeatTimes == 3  \* largest times given to a repeat that is advanced
MaxRepeatCalls == 5  \* calls of repeat's next() that are followed
MaxSourceLen == 2    \* longest source given to a constructor call
MaxPairLen == 3      \* longest source given to pairwise
MaxDepth == 2        \* most calls of one next() nested in each other
MaxZipSources == 3   \* most sources given to zip_longest
MaxZipLen == 3       \* longest source given to zip_longest

TeeVals == {1, 2}
GroupVals == {1, 2, 3}
ChainVals == {1, 2}
CycleVals == {1, 2}
TakeVals == {1, 2}
RepeatVals == {1, 2}
Repeats == {0, 1, 2}     \* the repeat arguments given to product

(***************************************************************************)
(* Values shared by all combinators.                                       *)
(***************************************************************************)
Idle == [class |-> "idle"]

\* Option<T>: None is the empty tuple, Some(v) the one-element tuple.
None == <<>>
Some(v) == <<v>>

\* PyResult of next(): a value, StopIteration, or a Rust panic.
Value(v) == [kind |-> "value", val |-> v]
Stop == [kind |-> "stop", val |-> 0]
Panic == [kind |-> "panic", val |-> 0]
\* an exception other than StopIteration, raised by code the combinator calls
Error == [kind |-> "error", val |-> 0]

\* PyResult of a constructor: the object, or the exception raised
Built(obj) == [kind |-> "object", obj |-> obj]
Raised(exception) == [kind |-> exception, obj |-> Idle]

\* usize arithmetic wraps at 2^UsizeBits; isize::MAX is sys.maxsize
UsizeModulus == 2 ^ UsizeBits
IsizeMax == 2 ^ (UsizeBits - 1) - 1

Min(a, b) == IF a < b THEN a ELSE b

\* range(n)
Range(n) == [i \in 1..n |-> i - 1]

\* The pool that extract_elements builds from the a-th argument, an iterable
\* of the given size: its elements are opaque and pairwise distinct.
Pool(a, size) == [j \in 1..size |-> 10 * a + j]

SeqsUpTo(S, n) == UNION {[1..k -> S] : k \in 0..n}

RECURSIVE Concat(_)
Concat(ss) == IF ss = <<>> THEN <<>> ELSE Head(ss) \o Concat(Tail(ss))

IsPrefix(s, t) == Len(s) <= Len(t) /\ s = SubSeq(t, 1, Len(s))

(***************************************************************************)
(* The upstream cursor: a finite list being iterated; its exhaustion is    *)
(* sticky (a list iterator past its end keeps raising StopIteration).      *)
(***************************************************************************)
\* A cursor whose exhaustion is not sticky has the mark Pauses at some
\* position: the pull that reaches it raises StopIteration and moves the
\* cursor on, so that a later pull produces the element after the mark.
Pauses == -3

GetIter(items) == [items |-> items, pos |-> 0]

CallNext(it) ==
    IF it.pos < Len(it.items) /\ it.items[it.pos + 1] # Pauses
    THEN [ok |-> TRUE, val |-> it.items[it.pos + 1], it |-> [it EXCEPT !.pos = @ + 1]]
    ELSE IF it.pos < Len(it.items)
    THEN [ok |-> FALSE, val |-> 0, it |-> [it EXCEPT !.pos = @ + 1]]
    ELSE [ok |-> FALSE, val |-> 0, it |-> it]

\* A cursor whose __next__ raises an exception other than StopIteration at
\* some position has the mark Raises there: the pull moves the cursor and
\* the caller gets the exception.  An object that is not iterable is the
\* list <<NotIterable>>: get_iter on it raises.
Raises == -1
NotIterable == -2
Failed(r) == r.ok /\ r.val = Raises
Opens(iterable) == iterable = <<>> \/ iterable[1] # NotIterable

\* items with the mark Pauses at position p (p = 0 or past the end: nowhere)
Pausing(items, p) == [j \in 1..Len(items) |-> IF j = p THEN Pauses ELSE items[j]]

\* items with the mark Raises at position p (p = 0 or past the end: nowhere)
Mark(items, p) == [j \in 1..Len(items) |-> IF j = p THEN Raises ELSE items[j]]

(***************************************************************************)
(* A specification constructs the combinator named k; the others stay      *)
(* absent.                                                                 *)
(***************************************************************************)
\* The specifications that follow calls step by step
Stepwise == {"pairwise", "tee_steps", "groupby_steps"}

Frame(k) ==
    /\ IF k \in {"tee", "tee_steps"} THEN TRUE ELSE UNCHANGED tee
    /\ IF k \in {"groupby", "groupby_steps"} THEN TRUE ELSE UNCHANGED groupby
    /\ IF k = "chain" THEN TRUE ELSE UNCHANGED chain
    /\ IF k = "cycle" THEN TRUE ELSE UNCHANGED cycle
    /\ IF k = "islice" THEN TRUE ELSE UNCHANGED islice
    /\ IF k = "product" THEN TRUE ELSE UNCHANGED product
    /\ IF k = "combinations" THEN TRUE ELSE UNCHANGED combinations
    /\ IF k = "permutations" THEN TRUE ELSE UNCHANGED permutations
    /\ IF k = "ziplongest" THEN TRUE ELSE UNCHANGED ziplongest
    /\ IF k = "cwr" THEN TRUE ELSE UNCHANGED cwr
    /\ IF k = "takewhile" THEN TRUE ELSE UNCHANGED takewhile
    /\ IF k = "repeat" THEN TRUE ELSE UNCHANGED repeat_it
    /\ IF k = "construction" THEN TRUE ELSE UNCHANGED <<built, upstream>>
    /\ IF k = "pairwise" THEN TRUE ELSE UNCHANGED pairwise
    /\ IF k = "compress" THEN TRUE ELSE UNCHANGED compress
    /\ IF k = "dropwhile" THEN TRUE ELSE UNCHANGED dropwhile
    /\ IF k \in Stepwise THEN TRUE ELSE UNCHANGED pc

NoCall == [op |-> "none", who |-> 0, kind |-> "none", val |-> 0]

(***************************************************************************)
(* tee                                                                     *)
(***************************************************************************)
TeeDataNew(items) == [iterable |-> GetIter(items), values |-> <<>>]

\* A plausible slip: read the newest buffered value instead of values[index].
TeeGetItemReadsLast(data, index) ==
    IF Len(data.values) = index
    THEN LET r == CallNext(data.iterable) IN
         IF ~r.ok
         THEN [ret |-> Stop, data |-> [data EXCEPT !.iterable = r.it]]
         ELSE [ret |-> Value(r.val),
               data |-> [iterable |-> r.it, values |-> Append(data.values, r.val)]]
    ELSE IF data.values = <<>>
         THEN [ret |-> Panic, data |-> data]
         ELSE [ret |-> Value(data.values[Len(data.values)]), data |-> data]

\* A plausible slip: the length check is missing, every call pulls and pushes.
TeeGetItemRefills(data, index) ==
    LET r == CallNext(data.iterable) IN
    IF Failed(r)
    THEN [ret |-> Error, data |-> [data EXCEPT !.iterable = r.it]]
    ELSE IF ~r.ok
    THEN [ret |-> Stop, data |-> [data EXCEPT !.iterable = r.it]]
    ELSE LET d == [iterable |-> r.it, values |-> Append(data.values, r.val)]
         IN  [ret |-> Value(d.values[index + 1]), data |-> d]

\* PyItertoolsTeeData::get_item; indices are 0-based in the code, sequences
\* 1-based here.  Indexing past the end of the Vec panics.
TeeGetItem(data, index) ==
    IF Len(data.values) = index
    THEN LET r == CallNext(data.iterable) IN
         IF Failed(r)
         THEN [ret |-> Error, data |-> [data EXCEPT !.iterable = r.it]]
         ELSE IF ~r.ok
         THEN [ret |-> Stop, data |-> [data EXCEPT !.iterable = r.it]]
         ELSE LET d == [iterable |-> r.it, values |-> Append(data.values, r.val)]
              IN  [ret |-> Value(d.values[index + 1]), data |-> d]
    ELSE IF index < Len(data.values)
         THEN [ret |-> Value(data.values[index + 1]), data |-> data]
         ELSE [ret |-> Panic, data |-> data]

\* PyItertoolsTee::py_new: n defaults to 2; from_iter makes one cursor at
\* index 0 on a fresh TeeData, and the n returned cursors are copies of it.
TeeNew(items, n_arg) ==
    LET n == IF n_arg # None THEN n_arg[1] ELSE 2 IN
    [tee_data |-> TeeDataNew(items), index |-> [c \in 1..n |-> 0]]

TeeObjects ==
    {TeeNew(items, n) : items \in SeqsUpTo(TeeVals, MaxTeeLen),
                        n \in {None} \cup {Some(k) : k \in 0..MaxTeeN}}

TeeObsInit(t) ==
    [out |-> [c \in DOMAIN t.index |-> <<>>], exh |-> [c \in DOMAIN t.index |-> FALSE]]

\* PyItertoolsTee::next of cursor c
TeeNext(c) ==
    /\ tee # Idle
    /\ c \in DOMAIN tee.index
    /\ LET r == TeeGetItem(tee.tee_data, tee.index[c]) IN
       /\ tee' = [tee_data |-> r.data,
                  index |-> IF r.ret.kind = "value"
                            THEN [tee.index EXCEPT ![c] = @ + 1]
                            ELSE tee.index]
       /\ ret' = [op |-> "tee", who |-> c, kind |-> r.ret.kind, val |-> r.ret.val]
       /\ obs' = CASE r.ret.kind = "value" -> [obs EXCEPT !.out[c] = Append(@, r.ret.val)]
                   [] r.ret.kind = "stop" -> [obs EXCEPT !.exh[c] = TRUE]
                   [] OTHER -> obs
    /\ Frame("tee")

NextTee == \E c \in DOMAIN tee.index : TeeNext(c)

\* tee(source) over sources that may raise; the cursors are then copied.
TeeCopyObjects ==
    {TeeNew(Mark(items, p), None) : items \in SeqsUpTo(TeeVals, MaxSourceLen),
                                   p \in 0..MaxSourceLen}

\* start[c]: the read index cursor c was created with
TeeCopyObsInit(t) ==
    [out |-> [c \in DOMAIN t.index |-> <<>>], exh |-> [c \in DOMAIN t.index |-> FALSE],
     start |-> [c \in DOMAIN t.index |-> 0]]

\* A plausible slip: the copy starts at the beginning of the buffer.
TeeCopyIndexRewinds(index) == 0

\* "index: AtomicCell::new(self.index.load())"
TeeCopyIndex(index) == index

\* PyItertoolsTee::copy of cursor c: a new cursor on the same tee_data
TeeCopy(c) ==
    /\ tee # Idle
    /\ c \in DOMAIN tee.index
    /\ Len(tee.index) < MaxTeeCursors
    /\ LET index == TeeCopyIndex(tee.index[c]) IN
       /\ tee' = [tee EXCEPT !.index = Append(@, index)]
       /\ ret' = [op |-> "tee_copy", who |-> c, kind |-> "object", val |-> Len(tee.index) + 1]
       /\ obs' = [out |-> Append(obs.out, <<>>), exh |-> Append(obs.exh, FALSE),
                  start |-> Append(obs.start, index)]
    /\ Frame("tee")

NextTeeCopy == \E c \in DOMAIN tee.index : TeeNext(c) \/ TeeCopy(c)

(***************************************************************************)
(* groupby and _grouper                                                    *)
(***************************************************************************)
\* key_func: None (the value is its own key) or a unary function, here v % 2
KeyFuncs == {None, Some("mod2")}

Invoke(kf, v) == IF kf = Some("mod2") THEN v % 2 ELSE v

\* PyItertoolsGroupBy::advance
GroupByAdvance(it, key_func) ==
    LET r == CallNext(it) IN
    IF ~r.ok
    THEN [ok |-> FALSE, value |-> 0, key |-> 0, it |-> r.it]
    ELSE [ok |-> TRUE, value |-> r.val,
          key |-> IF key_func # None THEN Invoke(key_func, r.val) ELSE r.val,
          it |-> r.it]

\* the loop of PyItertoolsGroupBy::next that drops the rest of the old group
RECURSIVE GroupBySkip(_, _, _)
GroupBySkip(it, key_func, old_key) ==
    LET a == GroupByAdvance(it, key_func) IN
    IF ~a.ok THEN a
    ELSE IF a.key # old_key THEN a
    ELSE GroupBySkip(a.it, key_func, old_key)

\* A plausible slip: every grouper passes the currency check.
IsCurrentAlways(state, grouper) == TRUE

\* GroupByState::is_current.  A grouper is identified by the order in which
\* it was created; the weak reference in state.grouper upgrades to that
\* grouper as long as the caller holds it, and only held groupers are advanced.
IsCurrent(state, grouper) ==
    state.grouper # None /\ state.grouper[1] = grouper

\* PyItertoolsGroupBy::py_new
GroupByNew(items, key) ==
    [iterable |-> GetIter(items),
     key_func |-> key,
     state |-> [current_key |-> None, current_value |-> None,
                next_group |-> FALSE, grouper |-> None],
     issued |-> 0]   \* number of PyItertoolsGrouper objects created so far

\* PyItertoolsGroupBy::next: the new object and the result
GroupByNextResult(g) ==
    LET s0 == [g.state EXCEPT !.grouper = None]
        a == IF s0.current_key # None
             THEN GroupBySkip(g.iterable, g.key_func, s0.current_key[1])
             ELSE GroupByAdvance(g.iterable, g.key_func)
        failed == ~s0.next_group /\ ~a.ok
        s1 == IF ~s0.next_group
              THEN [s0 EXCEPT !.current_value = Some(a.value), !.current_key = Some(a.key)]
              ELSE s0
        new == g.issued + 1
        s2 == [s1 EXCEPT !.next_group = FALSE, !.grouper = Some(new)]
    IN  IF failed
        THEN [ret |-> Stop, gb |-> [g EXCEPT !.state = s0, !.iterable = a.it]]
        ELSE [ret |-> Value(<<s2.current_key[1], new>>),
              gb |-> [g EXCEPT !.state = s2,
                               !.iterable = IF s0.next_group THEN @ ELSE a.it,
                               !.issued = new]]

\* A plausible slip: the value that ends the group is not kept for the next one.
GrouperNewGroupDropsValue(value, key) ==
    [current_value |-> None, current_key |-> Some(key),
     next_group |-> TRUE, grouper |-> None]

\* A plausible slip: the next-group flag is not set.
GrouperNewGroupUnflagged(value, key) ==
    [current_value |-> Some(value), current_key |-> Some(key),
     next_group |-> FALSE, grouper |-> None]

\* PyItertoolsGrouper::next, the branch taken when the key has changed: the
\* shared record after it.
GrouperNewGroup(value, key) ==
    [current_value |-> Some(value), current_key |-> Some(key),
     next_group |-> TRUE, grouper |-> None]

\* PyItertoolsGrouper::next of grouper zelf: the new parent object and the result
GrouperNextResult(g, zelf) ==
    IF ~IsCurrent(g.state, zelf)
    THEN [ret |-> Stop, gb |-> g]
    ELSE IF g.state.current_value # None
    THEN [ret |-> Value(g.state.current_value[1]),
          gb |-> [g EXCEPT !.state.current_value = None]]
    ELSE LET old_key == g.state.current_key[1]
             a == GroupByAdvance(g.iterable, g.key_func)
         IN  IF ~a.ok
             THEN [ret |-> Stop, gb |-> [g EXCEPT !.iterable = a.it]]
             ELSE IF a.key = old_key
             THEN [ret |-> Value(a.value), gb |-> [g EXCEPT !.iterable = a.it]]
             ELSE [ret |-> Stop,
                   gb |-> [g EXCEPT !.iterable = a.it,
                                    !.state = GrouperNewGroup(a.value, a.key)]]

GroupByObjects ==
    {GroupByNew(items, key) : items \in SeqsUpTo(GroupVals, MaxGroupLen), key \in KeyFuncs}

\* groups: what each issued grouper has produced, with the key it was issued
\* under; done: the latest grouper has signalled exhaustion; superseded: the
\* number of groupers issued before the latest call of the outer next();
\* drained: no outer next() was called while the latest grouper had not yet
\* signalled exhaustion.
GroupByObsInit ==
    [groups |-> <<>>, done |-> FALSE, superseded |-> 0, drained |-> TRUE, outer_exh |-> FALSE]

GroupByNext ==
    /\ groupby # Idle
    /\ LET r == GroupByNextResult(groupby) IN
       /\ groupby' = r.gb
       /\ ret' = [op |-> "groupby", who |-> 0, kind |-> r.ret.kind, val |-> r.ret.val]
       /\ obs' = [obs EXCEPT
                    !.groups = IF r.ret.kind = "value"
                               THEN Append(@, [key |-> r.ret.val[1], vals |-> <<>>])
                               ELSE @,
                    !.superseded = groupby.issued,
                    !.done = IF r.ret.kind = "value" THEN FALSE ELSE @,
                    !.drained = @ /\ (groupby.issued = 0 \/ obs.done),
                    !.outer_exh = @ \/ r.ret.kind = "stop"]
    /\ Frame("groupby")

GrouperNext(zelf) ==
    /\ groupby # Idle
    /\ zelf \in 1..groupby.issued
    /\ LET r == GrouperNextResult(groupby, zelf) IN
       /\ groupby' = r.gb
       /\ ret' = [op |-> "grouper", who |-> zelf, kind |-> r.ret.kind, val |-> r.ret.val]
       /\ obs' = IF r.ret.kind = "value"
                 THEN [obs EXCEPT !.groups[zelf].vals = Append(@, r.ret.val)]
                 ELSE [obs EXCEPT !.done = @ \/ zelf = groupby.issued]
    /\ Frame("groupby")

NextGroupBy == GroupByNext \/ \E zelf \in 1..groupby.issued : GrouperNext(zelf)

(***************************************************************************)
(* chain                                                                   *)
(***************************************************************************)
\* PyItertoolsChain::tp_new
ChainNew(iterables) == [iterables |-> iterables, cur_idx |-> 0, cached_iter |-> None]

\* A plausible slip: the exhausted cursor stays cached.
ChainAfterExhaustedKeepsCache(ch) == [ch EXCEPT !.cur_idx = @ + 1]

\* PyItertoolsChain::next, the StopIteration branch: cur_idx.fetch_add(1) and
\* the cache dropped
ChainAfterExhausted(ch) == [ch EXCEPT !.cur_idx = @ + 1, !.cached_iter = None]

\* A plausible slip: an exception is handled as the exhaustion of the source.
ChainAfterErrorMovesOn(ch) == [ch EXCEPT !.cur_idx = @ + 1, !.cached_iter = None]

\* PyItertoolsChain::next, "return Err(err)": nothing is written
ChainAfterError(ch) == ch

\* A plausible slip: the cache is not looked at, a cursor is opened every time.
ChainMustOpenAlways(ch) == TRUE

\* "if zelf.cached_iter.read().is_none()"
ChainMustOpen(ch) == ch.cached_iter = None

\* PyItertoolsChain::next: the loop, one iteration per unfolding.  The cached
\* cursor is the iterator object itself, so pulling from it advances it.
\* log: the cursors opened and the cursors that signalled exhaustion during
\* the call, in the order of these events
RECURSIVE ChainNextResult(_)
ChainNextResult(ch) ==
    LET pos == ch.cur_idx IN
    IF pos >= Len(ch.iterables)
    THEN [ret |-> Stop, chain |-> ch, log |-> <<>>]
    ELSE IF ChainMustOpen(ch) /\ ~Opens(ch.iterables[pos + 1])
    THEN [ret |-> Error, chain |-> ch, log |-> <<>>]
    ELSE LET cur_iter == IF ChainMustOpen(ch)
                         THEN GetIter(ch.iterables[pos + 1])
                         ELSE ch.cached_iter[1]
             opened == IF ChainMustOpen(ch) THEN <<[event |-> "opened", source |-> pos]>>
                       ELSE <<>>
             r == CallNext(cur_iter)
             pulled == [ch EXCEPT !.cached_iter = Some(r.it)]
         IN  IF Failed(r)
             THEN [ret |-> Error, chain |-> ChainAfterError(pulled), log |-> opened]
             ELSE IF r.ok
             THEN [ret |-> Value(r.val), chain |-> pulled, log |-> opened]
             ELSE LET k == ChainNextResult(ChainAfterExhausted(pulled)) IN
                  [k EXCEPT !.log = opened \o <<[event |-> "exhausted", source |-> pos]>>
                                       \o @]

ChainObjects ==
    {ChainNew(iterables) :
        iterables \in SeqsUpTo(SeqsUpTo(ChainVals, MaxChainLen), MaxChainSources)}

ChainObsInit == [out |-> <<>>, exh |-> FALSE, log |-> <<>>]

ChainNext ==
    /\ chain # Idle
    /\ LET r == ChainNextResult(chain) IN
       /\ chain' = r.chain
       /\ ret' = [op |-> "chain", who |-> 0, kind |-> r.ret.kind, val |-> r.ret.val]
       /\ obs' = [out |-> IF r.ret.kind = "value" THEN Append(obs.out, r.ret.val)
                          ELSE obs.out,
                  exh |-> obs.exh \/ r.ret.kind = "stop",
                  log |-> obs.log \o r.log]
    /\ Frame("chain")

NextChain == ChainNext

(***************************************************************************)
(* cycle                                                                   *)
(***************************************************************************)
\* PyItertoolsCycle::py_new
\* A plausible slip: the constructor fetches the first element ahead of time.
CycleNewPrefetch(items) ==
    [iter |-> CallNext(GetIter(items)).it, saved |-> <<>>, index |-> 0]

CycleNew(items) == [iter |-> GetIter(items), saved |-> <<>>, index |-> 0]

\* A plausible slip: the index wraps one element too late.
CycleWrapLate(last_index, len) == IF last_index > len - 1 THEN 0 ELSE last_index + 1

\* PyItertoolsCycle::next: index after fetch_add(1) and the wrap to 0
CycleWrap(last_index, len) == IF last_index >= len - 1 THEN 0 ELSE last_index + 1

\* A plausible slip: the empty buffer is not checked before it is indexed.
CycleReplayNoEmptyCheck(cy) ==
    LET last_index == cy.index IN
    IF last_index >= Len(cy.saved)
    THEN [ret |-> Panic, cycle |-> cy]
    ELSE [ret |-> Value(cy.saved[last_index + 1]),
          cycle |-> [cy EXCEPT !.index = CycleWrap(last_index, Len(cy.saved))]]

\* PyItertoolsCycle::next, the branch taken when the source is exhausted
CycleReplay(cy) ==
    IF Len(cy.saved) = 0
    THEN [ret |-> Stop, cycle |-> cy]
    ELSE LET last_index == cy.index IN
         IF last_index >= Len(cy.saved)
         THEN [ret |-> Panic, cycle |-> [cy EXCEPT !.index = CycleWrap(last_index, Len(cy.saved))]]
         ELSE [ret |-> Value(cy.saved[last_index + 1]),
               cycle |-> [cy EXCEPT !.index = CycleWrap(last_index, Len(cy.saved))]]

\* PyItertoolsCycle::next; pulled: the outcomes of the pulls the call made on
\* the source, get_next_object at the head of every call
CycleNextResult(cy) ==
    LET r == CallNext(cy.iter) IN
    IF r.ok
    THEN [ret |-> Value(r.val),
          cycle |-> [cy EXCEPT !.iter = r.it, !.saved = Append(@, r.val)],
          pulled |-> <<"value">>]
    ELSE LET k == CycleReplay([cy EXCEPT !.iter = r.it]) IN
         [ret |-> k.ret, cycle |-> k.cycle, pulled |-> <<"stop">>]

CycleObjects == {CycleNew(items) : items \in SeqsUpTo(CycleVals, MaxCycleLen)}

\* cycle over a source that may signal exhaustion once and go on afterwards
ResumingCycleObjects ==
    {CycleNew(Pausing(items, p)) :
        items \in SeqsUpTo(CycleVals, MaxCycleLen), p \in 0..MaxCycleLen}

\* n: values produced so far; calls: calls of next() so far; out: the values
\* produced; stopped: the source has signalled exhaustion
CycleObsInit == [n |-> 0, calls |-> 0, out |-> <<>>, stopped |-> FALSE]

CycleNext ==
    /\ cycle # Idle
    /\ obs.calls < MaxCycleCalls
    /\ LET r == CycleNextResult(cycle) IN
       /\ cycle' = r.cycle
       /\ ret' = [op |-> "cycle", who |-> 0, kind |-> r.ret.kind, val |-> r.ret.val,
                  pulled |-> r.pulled]
       /\ obs' = [n |-> IF r.ret.kind = "value" THEN obs.n + 1 ELSE obs.n,
                  calls |-> obs.calls + 1,
                  out |-> IF r.ret.kind = "value" THEN Append(obs.out, r.ret.val)
                          ELSE obs.out,
                  stopped |-> obs.stopped \/ \E i \in 1..Len(r.pulled) : r.pulled[i] = "stop"]
    /\ Frame("cycle")

NextCycle == CycleNext

(***************************************************************************)
(* islice                                                                  *)
(***************************************************************************)
\* PyItertoolsIslice::tp_new for arguments that pass pyobject_to_opt_usize:
\* None for start, stop or step selects 0, no bound and 1.
IsliceNew(items, start, stop, step) ==
    [iterable |-> GetIter(items),
     cur |-> 0,
     next |-> IF start # None THEN start[1] ELSE 0,
     stop |-> stop,
     step |-> IF step # None THEN step[1] ELSE 1]

\* A plausible slip: the discarded elements are not counted.
RECURSIVE IsliceSkipUncounted(_, _, _)
IsliceSkipUncounted(it, cur, next) ==
    IF cur < next
    THEN LET r == CallNext(it) IN
         IF ~r.ok
         THEN [ok |-> FALSE, it |-> r.it, cur |-> cur]
         ELSE [IsliceSkipUncounted(r.it, (cur + 1) % UsizeModulus, next) EXCEPT !.cur = cur]
    ELSE [ok |-> TRUE, it |-> it, cur |-> cur]

\* PyItertoolsIslice::next, the loop that discards elements up to the target
RECURSIVE IsliceSkip(_, _, _)
IsliceSkip(it, cur, next) ==
    IF cur < next
    THEN LET r == CallNext(it) IN
         IF ~r.ok
         THEN [ok |-> FALSE, it |-> r.it, cur |-> cur]
         ELSE IsliceSkip(r.it, (cur + 1) % UsizeModulus, next)
    ELSE [ok |-> TRUE, it |-> it, cur |-> cur]

\* A plausible slip: the element at position stop is still produced.
IsliceStopReachedLate(cur, stop) == stop # None /\ cur > stop[1]

\* PyItertoolsIslice::next: the test of the stop bound
IsliceStopReached(cur, stop) == stop # None /\ cur >= stop[1]

\* PyItertoolsIslice::next
IsliceNextResult(sl) ==
    LET k == IsliceSkip(sl.iterable, sl.cur, sl.next)
        s1 == [sl EXCEPT !.iterable = k.it, !.cur = k.cur]
    IN  IF ~k.ok
        THEN [ret |-> Stop, islice |-> s1]
        ELSE IF IsliceStopReached(s1.cur, s1.stop)
        THEN [ret |-> Stop, islice |-> s1]
        ELSE LET r == CallNext(s1.iterable) IN
             IF ~r.ok
             THEN [ret |-> Stop, islice |-> [s1 EXCEPT !.iterable = r.it]]
             ELSE LET s2 == [s1 EXCEPT !.iterable = r.it, !.cur = (@ + 1) % UsizeModulus]
                      sum == s2.next + s2.step
                      ovf == sum >= UsizeModulus
                  IN  IF ovf /\ s2.stop = None
                      THEN [ret |-> Panic, islice |-> s2]    \* zelf.stop.unwrap()
                      ELSE [ret |-> Value(r.val),
                            islice |-> [s2 EXCEPT !.next = IF ovf THEN s2.stop[1]
                                                           ELSE sum % UsizeModulus]]

IsliceArgs == {None} \cup {Some(v) : v \in 0..Min(MaxIsliceArg, IsizeMax)}

IsliceObjects ==
    {IsliceNew(Range(len), start, stop, step) :
        len \in 0..MaxIsliceLen, start \in IsliceArgs, stop \in IsliceArgs, step \in IsliceArgs}

\* Arguments at the ends of the accepted range, and sources long enough for
\* next to be reached after it has passed isize::MAX
IsliceEdgeArgs == {None} \cup {Some(v) : v \in {0, 1, IsizeMax - 1, IsizeMax}}

IsliceEdgeObjects ==
    {IsliceNew(Range(len), start, stop, step) :
        len \in {0, 1, IsizeMax + 1, 2 * IsizeMax, 2 * IsizeMax + 1},
        start \in IsliceEdgeArgs, stop \in IsliceEdgeArgs, step \in IsliceEdgeArgs}

\* start: the target index given at construction; again: next() was called
\* after it had signalled exhaustion
IsliceObsInit(sl) == [out |-> <<>>, exh |-> FALSE, again |-> FALSE, start |-> sl.next]

IsliceNext ==
    /\ islice # Idle
    /\ LET r == IsliceNextResult(islice) IN
       /\ islice' = r.islice
       /\ ret' = [op |-> "islice", who |-> 0, kind |-> r.ret.kind, val |-> r.ret.val]
       /\ obs' = IF r.ret.kind = "value"
                 THEN [obs EXCEPT !.out = Append(@, r.ret.val), !.again = @ \/ obs.exh]
                 ELSE [obs EXCEPT !.exh = TRUE, !.again = @ \/ obs.exh]
    /\ Frame("islice")

NextIslice == IsliceNext

(***************************************************************************)
(* product                                                                 *)
(***************************************************************************)
RECURSIVE RepeatPools(_, _)
RepeatPools(pools, repeat) ==
    IF repeat = 0 THEN <<>> ELSE pools \o RepeatPools(pools, repeat - 1)

\* PyItertoolsProduct::py_new; pools are the drained arguments
ProductNew(pools, repeat) ==
    LET all == RepeatPools(pools, repeat)
        l == Len(all)
    IN  [pools |-> all,
         idxs |-> [i \in 1..l |-> 0],
         cur |-> (l - 1) % UsizeModulus,      \* l.wrapping_sub(1)
         stop |-> FALSE]

\* A plausible slip: the index that overflowed is not reset.
ProductCarryNoReset(p) == [p EXCEPT !.cur = @ - 1]

\* PyItertoolsProduct::update_idxs: idxs[cur] = 0 and cur.fetch_sub(1)
ProductCarry(p) == [p EXCEPT !.idxs[p.cur + 1] = 0, !.cur = @ - 1]

\* PyItertoolsProduct::update_idxs
RECURSIVE UpdateIdxs(_)
UpdateIdxs(p) ==
    IF Len(p.idxs) = 0
    THEN [p EXCEPT !.stop = TRUE]
    ELSE LET cur == p.cur
             lst_idx == Len(p.pools[cur + 1]) - 1
         IN  IF p.idxs[cur + 1] = lst_idx
             THEN IF cur = 0
                  THEN [p EXCEPT !.stop = TRUE]
                  ELSE UpdateIdxs(ProductCarry(p))
             ELSE [p EXCEPT !.idxs[cur + 1] = @ + 1, !.cur = Len(p.idxs) - 1]

\* PyItertoolsProduct::next
ProductNextResult(p) ==
    IF p.stop
    THEN [ret |-> Stop, product |-> p]
    ELSE IF \E i \in 1..Len(p.pools) : p.pools[i] = <<>>
    THEN [ret |-> Stop, product |-> p]
    ELSE [ret |-> Value([i \in 1..Len(p.pools) |-> p.pools[i][p.idxs[i] + 1]]),
          product |-> UpdateIdxs(p)]

ProductObjects ==
    {ProductNew([a \in 1..Len(sizes) |-> Pool(a, sizes[a])], repeat) :
        sizes \in SeqsUpTo(0..MaxPoolSize, MaxProductArgs), repeat \in Repeats}

\* n: tuples produced so far; exh: exhaustion has been signalled
\* n tuples so far; exh: exhaustion has been signalled; again: a call made
\* after that has signalled exhaustion too
EnumObsInit == [n |-> 0, exh |-> FALSE, again |-> FALSE]

EnumObs(r) == [n |-> IF r.ret.kind = "value" THEN obs.n + 1 ELSE obs.n,
               exh |-> obs.exh \/ r.ret.kind = "stop",
               again |-> obs.again \/ (obs.exh /\ r.ret.kind = "stop")]

ProductNext ==
    /\ product # Idle
    /\ LET r == ProductNextResult(product) IN
       /\ product' = r.product
       /\ ret' = [op |-> "product", who |-> 0, kind |-> r.ret.kind, val |-> r.ret.val]
       /\ obs' = EnumObs(r)
    /\ Frame("product")

NextProduct == ProductNext

(***************************************************************************)
(* combinations                                                            *)
(***************************************************************************)
\* PyItertoolsCombinations::py_new, r non-negative
CombinationsNew(pool, r) ==
    [pool |-> pool,
     indices |-> Range(r),
     r |-> r,
     exhausted |-> r > Len(pool)]

\* A plausible slip: every index is compared with the last position of the
\* pool, the maximum of the rightmost index only.
RECURSIVE CombinationsScanLastOnly(_, _, _, _)
CombinationsScanLastOnly(indices, idx, n, r) ==
    IF idx >= 0 /\ indices[idx + 1] = n - 1
    THEN CombinationsScanLastOnly(indices, idx - 1, n, r)
    ELSE idx

\* PyItertoolsCombinations::next: the scan from the right for an index that
\* is not at its maximum idx + n - r; -1 when there is none
RECURSIVE CombinationsScan(_, _, _, _)
CombinationsScan(indices, idx, n, r) ==
    IF idx >= 0 /\ indices[idx + 1] = idx + n - r
    THEN CombinationsScan(indices, idx - 1, n, r)
    ELSE idx

\* A plausible slip: the indices to the right are set to the incremented
\* index itself, as combinations_with_replacement does.
CombinationsSuccessorSame(indices, idx, r) ==
    [j \in 1..r |-> IF j - 1 < idx THEN indices[j] ELSE indices[idx + 1] + 1]

\* PyItertoolsCombinations::next: indices[idx] += 1, then every index to the
\* right is one more than its left neighbour
CombinationsSuccessor(indices, idx, r) ==
    [j \in 1..r |-> IF j - 1 < idx THEN indices[j]
                    ELSE indices[idx + 1] + 1 + (j - 1 - idx)]

\* PyItertoolsCombinations::next
CombinationsNextResult(c) ==
    IF c.exhausted
    THEN [ret |-> Stop, combinations |-> c]
    ELSE LET n == Len(c.pool)
             r == c.r
         IN  IF r = 0
             THEN [ret |-> Value(<<>>), combinations |-> [c EXCEPT !.exhausted = TRUE]]
             ELSE LET res == [i \in 1..r |-> c.pool[c.indices[i] + 1]]
                      idx == CombinationsScan(c.indices, r - 1, n, r)
                  IN  [ret |-> Value(res),
                       combinations |->
                          IF idx < 0
                          THEN [c EXCEPT !.exhausted = TRUE]
                          ELSE [c EXCEPT !.indices = CombinationsSuccessor(@, idx, r)]]

CombinationsObjects ==
    {CombinationsNew(Pool(1, n), r) : n \in 0..MaxCombN, r \in 0..(MaxCombN + 1)}

CombinationsNext ==
    /\ combinations # Idle
    /\ LET r == CombinationsNextResult(combinations) IN
       /\ combinations' = r.combinations
       /\ ret' = [op |-> "combinations", who |-> 0, kind |-> r.ret.kind, val |-> r.ret.val]
       /\ obs' = EnumObs(r)
    /\ Frame("combinations")

NextCombinations == CombinationsNext

(***************************************************************************)
(* permutations                                                            *)
(***************************************************************************)
\* PyItertoolsPermutations::py_new; r is None or a non-negative int
PermutationsNew(pool, r_arg) ==
    LET n == Len(pool)
        r == IF r_arg # None THEN r_arg[1] ELSE n
    IN  [pool |-> pool,
         indices |-> Range(n),
         cycles |-> [i \in 1..Min(r, n) |-> n - (i - 1)],
         result |-> None,
         r |-> r,
         exhausted |-> r > n]

\* A plausible slip: the tail is shifted left but the vacated value is not
\* put at the end.
PermutationsRotateDropsIndex(indices, i, n) ==
    [j \in 1..n |-> IF j - 1 < i THEN indices[j]
                    ELSE IF j - 1 < n - 1 THEN indices[j + 1]
                    ELSE indices[n]]

\* indices[i:] = indices[i+1:] + indices[i:i+1]
PermutationsRotate(indices, i, n) ==
    [j \in 1..n |-> IF j - 1 < i THEN indices[j]
                    ELSE IF j - 1 < n - 1 THEN indices[j + 1]
                    ELSE indices[i + 1]]

\* A plausible slip: the swap partner is counted from the wrong end.
PermutationsSwapWrongEnd(indices, i, j, n) ==
    [indices EXCEPT ![i + 1] = indices[j + 1], ![j + 1] = indices[i + 1]]

\* indices.swap(i, n - j)
PermutationsSwap(indices, i, j, n) ==
    [indices EXCEPT ![i + 1] = indices[n - j + 1], ![n - j + 1] = indices[i + 1]]

\* PyItertoolsPermutations::next: the loop "for i in (0..r).rev()"; st holds
\* the locked indices, cycles and result, and sentinel
RECURSIVE PermutationsScan(_, _, _, _)
PermutationsScan(st, i, n, r) ==
    IF i < 0
    THEN st
    ELSE LET c == st.cycles[i + 1] - 1 IN
         IF c = 0
         THEN PermutationsScan(
                  [st EXCEPT !.indices = PermutationsRotate(@, i, n),
                             !.cycles[i + 1] = n - i],
                  i - 1, n, r)
         ELSE LET swapped == PermutationsSwap(st.indices, i, c, n) IN
              [indices |-> swapped,
               cycles |-> [st.cycles EXCEPT ![i + 1] = c],
               result |-> [k \in 1..r |-> IF k - 1 >= i THEN swapped[k] ELSE st.result[k]],
               sentinel |-> TRUE]

\* A plausible slip: exhaustion is signalled but not recorded.
PermutationsExhaustForgets(q) == q

\* "zelf.exhausted.store(true)" when the loop ends without a new tuple
PermutationsExhaust(q) == [q EXCEPT !.exhausted = TRUE]

\* PyItertoolsPermutations::next
PermutationsNextResult(p) ==
    IF p.exhausted
    THEN [ret |-> Stop, permutations |-> p]
    ELSE LET n == Len(p.pool)
             r == p.r
         IN  IF n = 0
             THEN [ret |-> Value(<<>>), permutations |-> [p EXCEPT !.exhausted = TRUE]]
             ELSE IF p.result = None
             THEN [ret |-> Value([k \in 1..r |-> p.pool[Range(r)[k] + 1]]),
                   permutations |-> [p EXCEPT !.result = Some(Range(r))]]
             ELSE LET st == PermutationsScan(
                                [indices |-> p.indices, cycles |-> p.cycles,
                                 result |-> p.result[1], sentinel |-> FALSE],
                                r - 1, n, r)
                      q == [p EXCEPT !.indices = st.indices, !.cycles = st.cycles,
                                     !.result = Some(st.result)]
                  IN  IF ~st.sentinel
                      THEN [ret |-> Stop, permutations |-> PermutationsExhaust(q)]
                      ELSE [ret |-> Value([k \in 1..r |-> p.pool[st.result[k] + 1]]),
                            permutations |-> q]

PermutationsObjects ==
    {PermutationsNew(Pool(1, n), r) :
        n \in 0..MaxPermN, r \in {None} \cup {Some(v) : v \in 0..(MaxPermN + 1)}}

PermutationsNext ==
    /\ permutations # Idle
    /\ LET r == PermutationsNextResult(permutations) IN
       /\ permutations' = r.permutations
       /\ ret' = [op |-> "permutations", who |-> 0, kind |-> r.ret.kind, val |-> r.ret.val]
       /\ obs' = EnumObs(r)
    /\ Frame("permutations")

NextPermutations == PermutationsNext

(***************************************************************************)
(* zip_longest                                                             *)
(***************************************************************************)
\* PyItertoolsZipLongest::py_new: one cursor per iterable; the fill value
\* defaults to None (the opaque value 0 here).
ZipLongestNew(iterables, fillvalue) ==
    [class |-> "zip_longest",
     iterators |-> [i \in 1..Len(iterables) |-> GetIter(iterables[i])],
     fillvalue |-> fillvalue]

\* A plausible slip: stop as soon as one source is left, as zip would.
ZipLongestNoneActiveEarly(numactive) == numactive <= 1

\* "if numactive == 0" after a source has signalled exhaustion
ZipLongestNoneActive(numactive) == numactive = 0

\* The for loop of next(): idx runs over the cursors (1-based here); every
\* cursor before the one that brings numactive to 0 has been pulled.
\* pulled: the cursors the call pulled; stopped: those of them that
\* signalled exhaustion
RECURSIVE ZipLongestLoop(_, _, _, _)
ZipLongestLoop(zl, idx, numactive, result) ==
    IF idx > Len(zl.iterators)
    THEN [ret |-> Value(result), ziplongest |-> zl, pulled |-> {}, stopped |-> {}]
    ELSE LET r == CallNext(zl.iterators[idx])
             z == [zl EXCEPT !.iterators[idx] = r.it]
         IN  IF Failed(r)
             THEN [ret |-> Error, ziplongest |-> z, pulled |-> {idx}, stopped |-> {}]
             ELSE IF r.ok
             THEN LET k == ZipLongestLoop(z, idx + 1, numactive, Append(result, r.val))
                  IN  [k EXCEPT !.pulled = @ \cup {idx}]
             ELSE IF ZipLongestNoneActive(numactive - 1)
                  THEN [ret |-> Stop, ziplongest |-> z, pulled |-> {idx}, stopped |-> {idx}]
                  ELSE LET k == ZipLongestLoop(z, idx + 1, numactive - 1,
                                               Append(result, zl.fillvalue))
                       IN  [k EXCEPT !.pulled = @ \cup {idx}, !.stopped = @ \cup {idx}]

ZipLongestNextResult(zl) ==
    IF zl.iterators = <<>>
    THEN [ret |-> Stop, ziplongest |-> zl, pulled |-> {}, stopped |-> {}]
    ELSE ZipLongestLoop(zl, 1, Len(zl.iterators), <<>>)

\* The a-th source has opaque, pairwise distinct elements.
ZipLongestObjects ==
    {ZipLongestNew([a \in 1..Len(lens) |-> Pool(a, lens[a])], 0) :
        lens \in SeqsUpTo(0..MaxZipLen, MaxZipSources)}

\* zip_longest over cursors of which each may signal exhaustion once and go
\* on afterwards
ResumingZipLongestObjects ==
    {ZipLongestNew([a \in 1..Len(src) |-> Pausing(Pool(a, src[a][1]), src[a][2])], 0) :
        src \in SeqsUpTo({np \in (0..MaxSourceLen) \X (0..MaxSourceLen) : np[2] <= np[1]},
                         MaxZipSources)}

\* stopped: the cursors that have signalled exhaustion
ZipLongestObsInit == [out |-> <<>>, exh |-> FALSE, stopped |-> {}]

ZipLongestNext ==
    /\ ziplongest # Idle
    /\ LET r == ZipLongestNextResult(ziplongest) IN
       /\ ziplongest' = r.ziplongest
       /\ ret' = [op |-> "zip_longest", who |-> 0, kind |-> r.ret.kind, val |-> r.ret.val,
                  pulled |-> r.pulled]
       /\ obs' = [out |-> IF r.ret.kind = "value" THEN Append(obs.out, r.ret.val)
                          ELSE obs.out,
                  exh |-> obs.exh \/ r.ret.kind = "stop",
                  stopped |-> obs.stopped \cup r.stopped]
    /\ Frame("ziplongest")

NextZipLongest == ZipLongestNext

(***************************************************************************)
(* combinations_with_replacement                                           *)
(***************************************************************************)
\* PyItertoolsCombinationsWithReplacement::py_new, r >= 0
CwrNew(pool, r) ==
    [pool |-> pool,
     indices |-> [j \in 1..r |-> 0],
     r |-> r,
     exhausted |-> Len(pool) = 0 /\ r > 0]

\* The scan from the right for an index that is not at its maximum n - 1;
\* -1 when there is none
RECURSIVE CwrScan(_, _, _)
CwrScan(indices, idx, n) ==
    IF idx >= 0 /\ indices[idx + 1] = n - 1
    THEN CwrScan(indices, idx - 1, n)
    ELSE idx

\* A plausible slip: the carry rule of combinations, every index to the right
\* one more than its left neighbour.
CwrSuccessorStepped(indices, idx, r) ==
    [j \in 1..r |-> IF j - 1 < idx THEN indices[j]
                    ELSE indices[idx + 1] + 1 + (j - 1 - idx)]

\* The index found and every index to its right become indices[idx] + 1
CwrSuccessor(indices, idx, r) ==
    [j \in 1..r |-> IF j - 1 < idx THEN indices[j] ELSE indices[idx + 1] + 1]

\* PyItertoolsCombinationsWithReplacement::next
CwrNextResult(c) ==
    IF c.exhausted
    THEN [ret |-> Stop, cwr |-> c]
    ELSE LET n == Len(c.pool)
             r == c.r
         IN  IF r = 0
             THEN [ret |-> Value(<<>>), cwr |-> [c EXCEPT !.exhausted = TRUE]]
             ELSE LET res == [i \in 1..r |-> c.pool[c.indices[i] + 1]]
                      idx == CwrScan(c.indices, r - 1, n)
                  IN  [ret |-> Value(res),
                       cwr |-> IF idx < 0
                               THEN [c EXCEPT !.exhausted = TRUE]
                               ELSE [c EXCEPT !.indices = CwrSuccessor(@, idx, r)]]

CwrObjects == {CwrNew(Pool(1, n), r) : n \in 0..MaxCwrN, r \in 0..(MaxCwrN + 1)}

CwrNext ==
    /\ cwr # Idle
    /\ LET r == CwrNextResult(cwr) IN
       /\ cwr' = r.cwr
       /\ ret' = [op |-> "cwr", who |-> 0, kind |-> r.ret.kind, val |-> r.ret.val]
       /\ obs' = EnumObs(r)
    /\ Frame("cwr")

NextCwr == CwrNext

(***************************************************************************)
(* takewhile                                                               *)
(***************************************************************************)
\* A predicate is the set of values it accepts; vm.invoke(predicate, (obj,))
\* followed by try_to_bool
Verdict(predicate, obj) == obj \in predicate

\* PyItertoolsTakewhile::py_new
TakewhileNew(predicate, items) ==
    [class |-> "takewhile",
     predicate |-> predicate,
     iterable |-> GetIter(items),
     stop_flag |-> FALSE]

\* A plausible slip: the refusal is signalled but not recorded.
TakewhileRefuseForgets(t) == t

\* "zelf.stop_flag.store(true)" after a false verdict
TakewhileRefuse(t) == [t EXCEPT !.stop_flag = TRUE]

\* PyItertoolsTakewhile::next; pulled and invoked tell whether the call
\* reached call_next and the predicate.
TakewhileNextResult(t) ==
    IF t.stop_flag
    THEN [ret |-> Stop, takewhile |-> t, pulled |-> FALSE, invoked |-> FALSE]
    ELSE LET r == CallNext(t.iterable)
             u == [t EXCEPT !.iterable = r.it]
         IN  IF ~r.ok
             THEN [ret |-> Stop, takewhile |-> u, pulled |-> TRUE, invoked |-> FALSE]
             ELSE IF Verdict(t.predicate, r.val)
             THEN [ret |-> Value(r.val), takewhile |-> u,
                   pulled |-> TRUE, invoked |-> TRUE]
             ELSE [ret |-> Stop, takewhile |-> TakewhileRefuse(u),
                   pulled |-> TRUE, invoked |-> TRUE]

TakewhileObjects ==
    {TakewhileNew(predicate, items) :
        predicate \in SUBSET TakeVals, items \in SeqsUpTo(TakeVals, MaxTakeLen)}

\* out: the values produced; exh: exhaustion was signalled; refused: a
\* verdict was false; again: a call was made after exhaustion
TakewhileObsInit == [out |-> <<>>, exh |-> FALSE, refused |-> FALSE, again |-> FALSE]

TakewhileNext ==
    /\ takewhile # Idle
    /\ LET r == TakewhileNextResult(takewhile) IN
       /\ takewhile' = r.takewhile
       /\ ret' = [op |-> "takewhile", who |-> 0, kind |-> r.ret.kind, val |-> r.ret.val,
                  pulled |-> r.pulled, invoked |-> r.invoked]
       /\ obs' = [out |-> IF r.ret.kind = "value" THEN Append(obs.out, r.ret.val)
                          ELSE obs.out,
                  exh |-> obs.exh \/ r.ret.kind = "stop",
                  refused |-> obs.refused \/ (r.invoked /\ r.ret.kind = "stop"),
                  again |-> obs.again \/ obs.exh]
    /\ Frame("takewhile")

NextTakewhile == TakewhileNext

(***************************************************************************)
(* repeat                                                                  *)
(***************************************************************************)
\* BigInt::to_usize: None outside 0 .. usize::MAX
ToUsize(val) == IF 0 <= val /\ val < UsizeModulus THEN Some(val) ELSE None

\* "val.to_usize().unwrap_or(0)"
RepeatTimes(val) == IF ToUsize(val) # None THEN ToUsize(val)[1] ELSE 0

\* A plausible slip: the range check is left out.
RepeatPyNewUnchecked(object, times) ==
    Built([class |-> "repeat", object |-> object,
           times |-> IF times = None THEN None ELSE Some(RepeatTimes(times[1]))])

\* PyItertoolsRepeat::py_new; times is None or Some(int)
RepeatPyNew(object, times) ==
    IF times # None /\ times[1] > IsizeMax
    THEN Raised("overflow_error")
    ELSE Built([class |-> "repeat", object |-> object,
                times |-> IF times = None THEN None ELSE Some(RepeatTimes(times[1]))])

\* PyItertoolsRepeat::length_hint: a TypeError tells "unsized"
RepeatLengthHint(rp) ==
    IF rp.times # None THEN [kind |-> "hint", val |-> rp.times[1]]
    ELSE [kind |-> "unsized", val |-> 0]

\* PyItertoolsRepeat::reduce: the arguments that rebuild the object
RepeatReduce(rp) ==
    IF rp.times # None THEN [kind |-> "reduce", val |-> <<rp.object, rp.times[1]>>]
    ELSE [kind |-> "reduce", val |-> <<rp.object>>]

\* A plausible slip: the counter is not decremented.
RepeatDecrementSkipped(times) == times

\* "*times -= 1"
RepeatDecrement(times) == times - 1

\* PyItertoolsRepeat::next
RepeatNextResult(rp) ==
    IF rp.times # None /\ rp.times[1] = 0
    THEN [ret |-> Stop, repeat |-> rp]
    ELSE [ret |-> Value(rp.object),
          repeat |-> IF rp.times # None
                     THEN [rp EXCEPT !.times = Some(RepeatDecrement(rp.times[1]))]
                     ELSE rp]

RepeatTimesArgs == {None} \cup {Some(t) : t \in (0 - 1)..MaxRepeatTimes}

RepeatObjects ==
    {RepeatPyNew(object, times).obj : object \in RepeatVals, times \in RepeatTimesArgs}

\* t: the counter at construction (None when unbounded); n: values produced
RepeatObsInit(rp) == [t |-> rp.times, n |-> 0, exh |-> FALSE, again |-> FALSE, calls |-> 0]

RepeatNext ==
    /\ repeat_it # Idle
    /\ obs.calls < MaxRepeatCalls
    /\ LET r == RepeatNextResult(repeat_it) IN
       /\ repeat_it' = r.repeat
       /\ ret' = [op |-> "repeat", who |-> 0, kind |-> r.ret.kind, val |-> r.ret.val]
       /\ obs' = [obs EXCEPT !.n = IF r.ret.kind = "value" THEN @ + 1 ELSE @,
                             !.exh = @ \/ r.ret.kind = "stop",
                             !.again = @ \/ obs.exh,
                             !.calls = @ + 1]
    /\ Frame("repeat")

RepeatQuery ==
    /\ repeat_it # Idle
    /\ \E q \in {RepeatLengthHint(repeat_it), RepeatReduce(repeat_it)} :
          ret' = [op |-> "repeat", who |-> 0, kind |-> q.kind, val |-> q.val]
    /\ UNCHANGED <<repeat_it, obs>>
    /\ Frame("repeat")

NextRepeat == RepeatNext \/ RepeatQuery

(***************************************************************************)
(* Constructors.  The arguments of a call are Python values: None, an int  *)
(* of any magnitude, or an object that is not an int.                      *)
(***************************************************************************)
PyNone == [type |-> "none"]
PyInt(v) == [type |-> "int", val |-> v]
PyStr == [type |-> "str"]

\* vm.extract_elements on a cursor: pulls until it signals exhaustion
RECURSIVE ExtractElements(_, _)
ExtractElements(it, elems) ==
    LET r == CallNext(it) IN
    IF r.ok THEN ExtractElements(r.it, Append(elems, r.val))
    ELSE [elems |-> elems, it |-> r.it]

\* py_new of compress, starmap, dropwhile, filterfalse, accumulate and
\* pairwise: get_iter on the iterable(s), nothing else
CompressNew(data, selector) ==
    [class |-> "compress", data |-> GetIter(data), selector |-> GetIter(selector)]
StarmapNew(function, items) ==
    [class |-> "starmap", function |-> function, iter |-> GetIter(items)]
DropwhileNew(predicate, items) ==
    [class |-> "dropwhile", predicate |-> predicate, iterable |-> GetIter(items),
     start_flag |-> FALSE]
FilterFalseNew(predicate, items) ==
    [class |-> "filterfalse", predicate |-> predicate, iterable |-> GetIter(items)]
AccumulateNew(items, binop, initial) ==
    [class |-> "accumulate", iterable |-> GetIter(items), binop |-> binop,
     initial |-> initial, acc_value |-> None]
PairwiseNew(items) == [class |-> "pairwise", iterator |-> GetIter(items), old |-> None]

\* A plausible slip: the upper limit sys.maxsize is not checked.
PyobjectToOptUsizeNoMax(obj) ==
    IF obj.type = "int" /\ ToUsize(obj.val) # None THEN ToUsize(obj.val) ELSE None

\* pyobject_to_opt_usize: Some(value) for an int in 0 .. isize::MAX, None
\* when it raises the ValueError
PyobjectToOptUsize(obj) ==
    IF obj.type = "int" /\ ToUsize(obj.val) # None /\ ToUsize(obj.val)[1] <= IsizeMax
    THEN ToUsize(obj.val)
    ELSE None

\* PyItertoolsIslice::tp_new with 2, 3 or 4 arguments: args are the ones
\* after the iterable, (stop), (start, stop) or (start, stop, step); a None
\* stands for the default; get_iter comes after the validation
IsliceTpNew(items, args) ==
    LET start == IF Len(args) >= 2 THEN args[1] ELSE PyNone
        stop == IF Len(args) >= 2 THEN args[2] ELSE args[1]
        step == IF Len(args) = 3 THEN args[3] ELSE PyNone
        Opt(a) == IF a.type = "none" THEN None ELSE PyobjectToOptUsize(a)
        Fails(a) == a.type # "none" /\ PyobjectToOptUsize(a) = None
    IN  IF Fails(step) \/ Fails(start) \/ Fails(stop)
        THEN Raised("value_error")
        ELSE Built(IsliceNew(items, Opt(start), Opt(stop), Opt(step)))

\* py_new of combinations and combinations_with_replacement after the pool
\* has been extracted: r is an int; to_usize().unwrap() panics beyond usize
CombinationsPyNew(pool, r) ==
    IF r.val < 0 THEN Raised("value_error")
    ELSE IF ToUsize(r.val) = None THEN Raised("panic")
    ELSE Built(CombinationsNew(pool, r.val))

CwrPyNew(pool, r) ==
    IF r.val < 0 THEN Raised("value_error")
    ELSE IF ToUsize(r.val) = None THEN Raised("panic")
    ELSE Built(CwrNew(pool, r.val))

\* PyItertoolsPermutations::py_new after the pool has been extracted
PermutationsPyNew(pool, r) ==
    IF r.type = "none" THEN Built(PermutationsNew(pool, None))
    ELSE IF r.type # "int" THEN Raised("type_error")
    ELSE IF r.val < 0 THEN Raised("value_error")
    ELSE IF ToUsize(r.val) = None THEN Raised("panic")
    ELSE Built(PermutationsNew(pool, Some(r.val)))

Lazy == {"chain", "compress", "cycle", "starmap", "takewhile", "dropwhile", "groupby",
         "islice", "filterfalse", "accumulate", "tee", "zip_longest", "pairwise"}
Eager == {"product", "combinations", "cwr", "permutations"}

\* The cursors that an object of class c holds; chain holds its iterables
\* unopened, the pool-based classes and repeat hold no cursor.
Cursors(c, obj, unopened) ==
    CASE c = "compress" -> <<obj.data, obj.selector>>
      [] c \in {"cycle", "starmap"} -> <<obj.iter>>
      [] c \in {"takewhile", "dropwhile", "groupby", "islice", "filterfalse",
                "accumulate"} -> <<obj.iterable>>
      [] c = "tee" -> <<obj.tee_data.iterable>>
      [] c = "zip_longest" -> obj.iterators
      [] c = "pairwise" -> <<obj.iterator>>
      [] OTHER -> unopened

\* The constructor of call.class applied to the iterables call.srcs and the
\* further arguments call.args: its result, and the cursors over the
\* iterables as it leaves them.  The pool-based classes extract the pools
\* before they look at r.
PyNew(call) ==
    LET c == call.class
        s == call.srcs
        unopened == [a \in DOMAIN s |-> GetIter(s[a])]
        drained == [a \in DOMAIN s |-> ExtractElements(GetIter(s[a]), <<>>)]
        pools == [a \in DOMAIN s |-> drained[a].elems]
        result ==
            CASE c = "chain" -> Built(ChainNew(s))
              [] c = "compress" -> Built(CompressNew(s[1], s[2]))
              [] c = "cycle" -> Built(CycleNew(s[1]))
              [] c = "starmap" -> Built(StarmapNew("function", s[1]))
              [] c = "takewhile" -> Built(TakewhileNew({}, s[1]))
              [] c = "dropwhile" -> Built(DropwhileNew({}, s[1]))
              [] c = "groupby" -> Built(GroupByNew(s[1], None))
              [] c = "islice" -> IsliceTpNew(s[1], call.args)
              [] c = "filterfalse" -> Built(FilterFalseNew({}, s[1]))
              [] c = "accumulate" -> Built(AccumulateNew(s[1], None, None))
              [] c = "tee" -> Built(TeeNew(s[1], None))
              [] c = "zip_longest" -> Built(ZipLongestNew(s, 0))
              [] c = "pairwise" -> Built(PairwiseNew(s[1]))
              [] c = "product" -> Built(ProductNew(pools, call.args[1].val))
              [] c = "combinations" -> CombinationsPyNew(pools[1], call.args[1])
              [] c = "cwr" -> CwrPyNew(pools[1], call.args[1])
              [] c = "permutations" -> PermutationsPyNew(pools[1], call.args[1])
              [] c = "repeat" -> RepeatPyNew(0, Some(call.args[1].val))
    IN  [result |-> result,
         upstream |-> IF c \in Eager THEN [a \in DOMAIN s |-> drained[a].it]
                      ELSE IF result.kind = "object" THEN Cursors(c, result.obj, unopened)
                      ELSE unopened]

\* next() of the object that was built, for the classes advanced here
BuiltNextResult(c, obj) ==
    CASE c = "product" -> LET r == ProductNextResult(obj) IN [ret |-> r.ret, obj |-> r.product]
      [] c = "combinations" ->
            LET r == CombinationsNextResult(obj) IN [ret |-> r.ret, obj |-> r.combinations]
      [] c = "cwr" -> LET r == CwrNextResult(obj) IN [ret |-> r.ret, obj |-> r.cwr]
      [] c = "permutations" ->
            LET r == PermutationsNextResult(obj) IN [ret |-> r.ret, obj |-> r.permutations]
      [] c = "islice" -> LET r == IsliceNextResult(obj) IN [ret |-> r.ret, obj |-> r.islice]
      [] c = "repeat" -> LET r == RepeatNextResult(obj) IN [ret |-> r.ret, obj |-> r.repeat]

Sources(k) ==
    {[a \in 1..k |-> Pool(a, lens[a])] : lens \in [1..k -> 0..MaxSourceLen]}

IntArgs == {PyInt(v) : v \in {0 - 1, 0, 1, 2, IsizeMax, IsizeMax + 1, UsizeModulus}}

ConstructorCalls ==
    LET Calls(C, S, A) == {[class |-> c, srcs |-> s, args |-> a] : c \in C, s \in S, a \in A}
    IN  Calls({"chain", "zip_longest"}, UNION {Sources(k) : k \in 0..2}, {<<>>})
        \cup Calls({"compress"}, Sources(2), {<<>>})
        \cup Calls(Lazy \ {"chain", "zip_longest", "compress", "islice"}, Sources(1), {<<>>})
        \cup Calls({"islice"}, Sources(1),
                   SeqsUpTo(IntArgs \cup {PyNone, PyStr}, 3) \ {<<>>})
        \cup Calls({"product"}, UNION {Sources(k) : k \in 0..2},
                   {<<PyInt(v)>> : v \in Repeats})
        \cup Calls({"combinations", "cwr"}, Sources(1),
                   {<<a>> : a \in {PyInt(v) : v \in {0 - 1, 0, 1, 2, UsizeModulus}}})
        \cup Calls({"permutations"}, Sources(1),
                   {<<a>> : a \in {PyInt(v) : v \in {0 - 1, 0, 1, 2, UsizeModulus}}
                                   \cup {PyNone, PyStr}})
        \cup Calls({"repeat"}, {<<>>}, {<<a>> : a \in IntArgs})

Construct ==
    /\ built = Idle
    /\ \E call \in ConstructorCalls :
          LET r == PyNew(call) IN
          /\ built' = [call |-> call, kind |-> r.result.kind, obj |-> r.result.obj]
          /\ upstream' = r.upstream
    /\ UNCHANGED <<ret, obs>>
    /\ Frame("construction")

BuiltNext ==
    /\ built # Idle
    /\ built.kind = "object"
    /\ built.call.class \in Eager \cup {"islice", "repeat"}
    /\ LET c == built.call.class
           r == BuiltNextResult(c, built.obj)
       IN  /\ built' = [built EXCEPT !.obj = r.obj]
           /\ upstream' = Cursors(c, r.obj, upstream)
           /\ ret' = [op |-> c, who |-> 0, kind |-> r.ret.kind, val |-> r.ret.val]
           /\ obs' = EnumObs(r)
    /\ Frame("construction")

NextConstruction == Construct \/ BuiltNext

(***************************************************************************)
(* pairwise, step by step.  A call of next() is a frame on pc.stack; the   *)
(* upstream cursor's __next__ is external code, which may call next() of   *)
(* the same pairwise object again before it returns (a nested frame).      *)
(* pc.readers counts the read guards held on the lock of "old".            *)
(***************************************************************************)
PairwiseObjects == {PairwiseNew(Pool(1, len)) : len \in 0..MaxPairLen}

PairwisePcInit == [stack |-> <<>>, readers |-> 0]

PairwiseObsInit == [out |-> <<>>, exh |-> FALSE]

\* The positions of a frame at which external code runs: call_next
PairwiseExternal == {"pull_old", "pull_new"}

PairwiseTop == pc.stack[Len(pc.stack)]

PairwiseSetTop(f) == [pc.stack EXCEPT ![Len(pc.stack)] = f]

PairwisePop == SubSeq(pc.stack, 1, Len(pc.stack) - 1)

PairwiseReturn(result) ==
    /\ ret' = [op |-> "pairwise", who |-> Len(pc.stack), kind |-> result.kind,
               val |-> result.val]
    /\ obs' = IF result.kind = "value"
              THEN [obs EXCEPT !.out = Append(@, result.val)]
              ELSE [obs EXCEPT !.exh = TRUE]

\* next() is called: by the caller, or by the external code that a frame is
\* waiting for.
PairwiseCall ==
    /\ pairwise # Idle
    /\ \/ pc.stack = <<>>
       \/ /\ pc.stack # <<>> /\ Len(pc.stack) < MaxDepth
          /\ PairwiseTop.pc \in PairwiseExternal
    /\ pc' = [pc EXCEPT !.stack = Append(@, [pc |-> "match", old |-> None,
                                             new |-> None, guard |-> FALSE])]
    /\ UNCHANGED <<pairwise, ret, obs>>
    /\ Frame("pairwise")

\* "match zelf.old.read().clone()": the read guard is a temporary of the
\* scrutinee and lives to the end of the let statement, so the None arm
\* runs under it; the Some arm only moves the clone.
PairwiseMatch ==
    /\ pairwise # Idle /\ pc.stack # <<>> /\ PairwiseTop.pc = "match"
    /\ pc' = IF pairwise.old = None
             THEN [stack |-> PairwiseSetTop([PairwiseTop EXCEPT !.pc = "pull_old",
                                                                !.guard = TRUE]),
                   readers |-> pc.readers + 1]
             ELSE [pc EXCEPT !.stack = PairwiseSetTop(
                        [PairwiseTop EXCEPT !.pc = "pull_new", !.old = pairwise.old])]
    /\ UNCHANGED <<pairwise, ret, obs>>
    /\ Frame("pairwise")

\* "None => call_next(vm, &zelf.iterator)?" returns; the guard is dropped
\* with the statement, or with the early return of "?".
PairwisePullOld ==
    /\ pairwise # Idle /\ pc.stack # <<>> /\ PairwiseTop.pc = "pull_old"
    /\ LET r == CallNext(pairwise.iterator) IN
       /\ pairwise' = [pairwise EXCEPT !.iterator = r.it]
       /\ IF r.ok
          THEN /\ pc' = [stack |-> PairwiseSetTop([PairwiseTop EXCEPT !.pc = "pull_new",
                                                      !.old = Some(r.val),
                                                      !.guard = FALSE]),
                         readers |-> pc.readers - 1]
               /\ UNCHANGED <<ret, obs>>
          ELSE /\ pc' = [stack |-> PairwisePop, readers |-> pc.readers - 1]
               /\ PairwiseReturn(Stop)
    /\ Frame("pairwise")

\* "let new = call_next(vm, &zelf.iterator)?" returns
PairwisePullNew ==
    /\ pairwise # Idle /\ pc.stack # <<>> /\ PairwiseTop.pc = "pull_new"
    /\ LET r == CallNext(pairwise.iterator) IN
       /\ pairwise' = [pairwise EXCEPT !.iterator = r.it]
       /\ IF r.ok
          THEN /\ pc' = [pc EXCEPT !.stack = PairwiseSetTop(
                            [PairwiseTop EXCEPT !.pc = "write", !.new = Some(r.val)])]
               /\ UNCHANGED <<ret, obs>>
          ELSE /\ pc' = [pc EXCEPT !.stack = PairwisePop]
               /\ PairwiseReturn(Stop)
    /\ Frame("pairwise")

\* "*zelf.old.write() = Some(new.clone())" and the return of the tuple; the
\* write lock is not granted while a read guard is held, and the guard of
\* an outer frame of the same thread is never dropped while this frame
\* waits.
PairwiseWrite ==
    /\ pairwise # Idle /\ pc.stack # <<>> /\ PairwiseTop.pc = "write"
    /\ IF pc.readers = 0
       THEN /\ pairwise' = [pairwise EXCEPT !.old = PairwiseTop.new]
            /\ pc' = [pc EXCEPT !.stack = PairwisePop]
            /\ PairwiseReturn(Value(<<PairwiseTop.old[1], PairwiseTop.new[1]>>))
       ELSE /\ pc' = [pc EXCEPT !.stack = PairwiseSetTop(
                         [PairwiseTop EXCEPT !.pc = "blocked"])]
            /\ UNCHANGED <<pairwise, ret, obs>>
    /\ Frame("pairwise")

NextPairwise ==
    PairwiseCall \/ PairwiseMatch \/ PairwisePullOld \/ PairwisePullNew \/ PairwiseWrite

(***************************************************************************)
(* groupby, step by step.  One call of the outer next() and one call of a  *)
(* grouper's next() may be in flight at once, on two threads; a section    *)
(* under the state mutex is one step, and so is one advance() with the     *)
(* comparison of the keys, which run without the mutex.                    *)
(***************************************************************************)
\* pc.outer and pc.grouper: the position and the locals of the call in
\* flight; overtaken tells that a call of the outer next() has returned
\* since this call of the grouper's next() released the mutex.
GroupByPcInit ==
    [outer |-> [at |-> "idle", old_key |-> None, value |-> 0, key |-> 0],
     grouper |-> [at |-> "idle", zelf |-> 0, old_key |-> 0, value |-> 0, key |-> 0,
                  overtaken |-> FALSE]]

\* stale: a grouper's call that was overtaken returned a value; overwritten:
\* such a call changed the shared record
GroupByStepsObsInit == [stale |-> FALSE, overwritten |-> FALSE]

GroupByIdle == GroupByPcInit.outer
GrouperIdle == GroupByPcInit.grouper

\* The outer call returns: a grouper's call in flight is overtaken.
GroupByReturn(result) ==
    /\ ret' = [op |-> "groupby", who |-> 0, kind |-> result.kind, val |-> result.val]
    /\ pc' = [outer |-> GroupByIdle,
              grouper |-> IF pc.grouper.at # "idle"
                          THEN [pc.grouper EXCEPT !.overtaken = TRUE]
                          ELSE pc.grouper]
    /\ obs' = obs

GrouperReturn(result, state) ==
    /\ ret' = [op |-> "grouper", who |-> pc.grouper.zelf, kind |-> result.kind,
               val |-> result.val]
    /\ pc' = [pc EXCEPT !.grouper = GrouperIdle]
    /\ obs' = [stale |-> obs.stale \/ (pc.grouper.overtaken /\ result.kind = "value"),
               overwritten |-> obs.overwritten
                                 \/ (pc.grouper.overtaken /\ state # groupby.state)]

\* GroupBy::next, first section under the mutex: the grouper is forgotten;
\* with next_group set the call finishes in this section.
GroupByEnter ==
    /\ groupby # Idle /\ pc.outer.at = "idle"
    /\ LET s0 == [groupby.state EXCEPT !.grouper = None]
           new == groupby.issued + 1
       IN  IF s0.next_group
           THEN /\ groupby' = [groupby EXCEPT
                                  !.state = [s0 EXCEPT !.next_group = FALSE,
                                                       !.grouper = Some(new)],
                                  !.issued = new]
                /\ GroupByReturn(Value(<<s0.current_key[1], new>>))
           ELSE /\ groupby' = [groupby EXCEPT !.state = s0]
                /\ pc' = [pc EXCEPT !.outer = [at |-> "skip", old_key |-> s0.current_key,
                                               value |-> 0, key |-> 0]]
                /\ UNCHANGED <<ret, obs>>
    /\ Frame("groupby_steps")

\* GroupBy::next, one advance() of the loop (or the only one when there is
\* no old key) and the comparison with the old key
GroupByPull ==
    /\ groupby # Idle /\ pc.outer.at = "skip"
    /\ LET a == GroupByAdvance(groupby.iterable, groupby.key_func) IN
       /\ groupby' = [groupby EXCEPT !.iterable = a.it]
       /\ IF ~a.ok
          THEN GroupByReturn(Stop)
          ELSE /\ pc' = IF pc.outer.old_key = None \/ a.key # pc.outer.old_key[1]
                        THEN [pc EXCEPT !.outer = [at |-> "store", old_key |-> @.old_key,
                                                   value |-> a.value, key |-> a.key]]
                        ELSE pc
               /\ UNCHANGED <<ret, obs>>
    /\ Frame("groupby_steps")

\* GroupBy::next, second section under the mutex
GroupByStore ==
    /\ groupby # Idle /\ pc.outer.at = "store"
    /\ LET new == groupby.issued + 1 IN
       /\ groupby' = [groupby EXCEPT
                         !.state = [current_value |-> Some(pc.outer.value),
                                    current_key |-> Some(pc.outer.key),
                                    next_group |-> FALSE, grouper |-> Some(new)],
                         !.issued = new]
       /\ GroupByReturn(Value(<<pc.outer.key, new>>))
    /\ Frame("groupby_steps")

\* Grouper::next, the section under the mutex: the currency check, the
\* buffered value, the clone of the current key
GrouperEnter(zelf) ==
    /\ groupby # Idle /\ pc.grouper.at = "idle"
    /\ zelf \in 1..groupby.issued
    /\ IF ~IsCurrent(groupby.state, zelf)
       THEN /\ ret' = [op |-> "grouper", who |-> zelf, kind |-> "stop", val |-> 0]
            /\ UNCHANGED <<groupby, pc, obs>>
       ELSE IF groupby.state.current_value # None
       THEN /\ groupby' = [groupby EXCEPT !.state.current_value = None]
            /\ ret' = [op |-> "grouper", who |-> zelf, kind |-> "value",
                       val |-> groupby.state.current_value[1]]
            /\ UNCHANGED <<pc, obs>>
       ELSE /\ pc' = [pc EXCEPT !.grouper = [at |-> "advance", zelf |-> zelf,
                                             old_key |-> groupby.state.current_key[1],
                                             value |-> 0, key |-> 0,
                                             overtaken |-> FALSE]]
            /\ UNCHANGED <<groupby, ret, obs>>
    /\ Frame("groupby_steps")

\* Grouper::next: advance() and the comparison of the keys, without the mutex
GrouperPull ==
    /\ groupby # Idle /\ pc.grouper.at = "advance"
    /\ LET a == GroupByAdvance(groupby.iterable, groupby.key_func) IN
       /\ groupby' = [groupby EXCEPT !.iterable = a.it]
       /\ IF ~a.ok
          THEN GrouperReturn(Stop, groupby.state)
          ELSE IF a.key = pc.grouper.old_key
          THEN GrouperReturn(Value(a.value), groupby.state)
          ELSE /\ pc' = [pc EXCEPT !.grouper.at = "store", !.grouper.value = a.value,
                                   !.grouper.key = a.key]
               /\ UNCHANGED <<ret, obs>>
    /\ Frame("groupby_steps")

\* Grouper::next, the section under the mutex after the key has changed
GrouperStore ==
    /\ groupby # Idle /\ pc.grouper.at = "store"
    /\ LET state == GrouperNewGroup(pc.grouper.value, pc.grouper.key) IN
       /\ groupby' = [groupby EXCEPT !.state = state]
       /\ GrouperReturn(Stop, state)
    /\ Frame("groupby_steps")

NextGroupBySteps ==
    \/ GroupByEnter \/ GroupByPull \/ GroupByStore
    \/ \E zelf \in 1..groupby.issued : GrouperEnter(zelf)
    \/ GrouperPull \/ GrouperStore

(***************************************************************************)
(* tee, step by step.  Every cursor may have one call of next() in flight, *)
(* each on its own thread.  The steps of get_item are the sections under   *)
(* the lock of tee_data.values and the call_next between them.             *)
(***************************************************************************)
\* tee(source) with n left out (two cursors) and tee(source, 1)
TeeStepsObjects ==
    {TeeNew(items, n) : items \in SeqsUpTo(TeeVals, MaxTeeLen), n \in {None, Some(1)}}

\* pc[c]: the position and the locals (index, result) of cursor c's call
TeeCallIdle == [at |-> "idle", index |-> 0, result |-> 0]
TeePcInit(t) == [c \in DOMAIN t.index |-> TeeCallIdle]

\* out[c]: the values cursor c has received; stopped[c]: the indices at which
\* it was told the source is exhausted; pulled[i]: how many values get_item
\* pulled for index i; raced: the indices that two calls in flight both found
\* equal to the length of the buffer
TeeStepsObsInit(t) ==
    [out |-> [c \in DOMAIN t.index |-> <<>>],
     stopped |-> [c \in DOMAIN t.index |-> {}],
     pulled |-> [i \in 0..Len(t.tee_data.iterable.items) |-> 0],
     raced |-> {}]

\* next() loads the cursor's index; get_item compares it with the length of
\* the buffer under the read lock, which the end of the condition releases.
TeeCheck(c) ==
    /\ tee # Idle /\ c \in DOMAIN tee.index /\ pc[c].at = "idle"
    /\ LET index == tee.index[c]
           fill == Len(tee.tee_data.values) = index
       IN  /\ pc' = [pc EXCEPT ![c] = [at |-> IF fill THEN "pull" ELSE "read",
                                       index |-> index, result |-> 0]]
           /\ obs' = IF fill /\ \E d \in DOMAIN pc : /\ d # c
                                                     /\ pc[d].at \in {"pull", "push"}
                                                     /\ pc[d].index = index
                     THEN [obs EXCEPT !.raced = @ \cup {index}]
                     ELSE obs
    /\ UNCHANGED <<tee, ret>>
    /\ Frame("tee_steps")

\* call_next on the shared source, no lock held
TeePull(c) ==
    /\ tee # Idle /\ c \in DOMAIN tee.index /\ pc[c].at = "pull"
    /\ LET r == CallNext(tee.tee_data.iterable) IN
       /\ tee' = [tee EXCEPT !.tee_data.iterable = r.it]
       /\ IF ~r.ok
          THEN /\ pc' = [pc EXCEPT ![c] = TeeCallIdle]
               /\ ret' = [op |-> "tee", who |-> c, kind |-> "stop", val |-> 0]
               /\ obs' = [obs EXCEPT !.stopped[c] = @ \cup {pc[c].index}]
          ELSE /\ pc' = [pc EXCEPT ![c].at = "push", ![c].result = r.val]
               /\ obs' = [obs EXCEPT !.pulled[pc[c].index] = @ + 1]
               /\ UNCHANGED ret
    /\ Frame("tee_steps")

\* values.write().push(result)
TeePush(c) ==
    /\ tee # Idle /\ c \in DOMAIN tee.index /\ pc[c].at = "push"
    /\ tee' = [tee EXCEPT !.tee_data.values = Append(@, pc[c].result)]
    /\ pc' = [pc EXCEPT ![c].at = "read"]
    /\ UNCHANGED <<ret, obs>>
    /\ Frame("tee_steps")

\* values.read()[index].clone(), then next() bumps the cursor's index
TeeRead(c) ==
    /\ tee # Idle /\ c \in DOMAIN tee.index /\ pc[c].at = "read"
    /\ LET index == pc[c].index IN
       IF index < Len(tee.tee_data.values)
       THEN /\ tee' = [tee EXCEPT !.index[c] = @ + 1]
            /\ ret' = [op |-> "tee", who |-> c, kind |-> "value",
                       val |-> tee.tee_data.values[index + 1]]
            /\ obs' = [obs EXCEPT !.out[c] = Append(@, tee.tee_data.values[index + 1])]
       ELSE /\ ret' = [op |-> "tee", who |-> c, kind |-> "panic", val |-> 0]
            /\ UNCHANGED <<tee, obs>>
    /\ pc' = [pc EXCEPT ![c] = TeeCallIdle]
    /\ Frame("tee_steps")

NextTeeSteps ==
    \E c \in DOMAIN tee.index : TeeCheck(c) \/ TeePull(c) \/ TeePush(c) \/ TeeRead(c)

(***************************************************************************)
(* Sources that raise, given to chain and to zip_longest                   *)
(***************************************************************************)
\* chain over lists that may raise at any position and objects that are not
\* iterable
FallibleChainObjects ==
    {ChainNew(iterables) :
        iterables \in SeqsUpTo(SeqsUpTo(ChainVals \cup {Raises}, MaxChainLen)
                                  \cup {<<NotIterable>>}, MaxChainSources)}

\* zip_longest over cursors of which each raises at one position at most
FallibleZipLongestObjects ==
    {ZipLongestNew([a \in 1..Len(src) |-> Mark(Pool(a, src[a][1]), src[a][2])], 0) :
        src \in SeqsUpTo({np \in (0..MaxSourceLen) \X (0..MaxSourceLen) : np[2] <= np[1]},
                         MaxZipSources)}

(***************************************************************************)
(* compress                                                                *)
(***************************************************************************)
\* try_to_bool of a selector value, an int here
Truthy(v) == v # 0

\* A plausible slip: the data value is pulled before the selector value.
RECURSIVE CompressNextResultDataFirst(_)
CompressNextResultDataFirst(c) ==
    LET d == CallNext(c.data)
        c1 == [c EXCEPT !.data = d.it]
    IN  IF ~d.ok
        THEN [ret |-> Stop, compress |-> c1]
        ELSE LET sel == CallNext(c1.selector)
                 c2 == [c1 EXCEPT !.selector = sel.it]
             IN  IF ~sel.ok
                 THEN [ret |-> Stop, compress |-> c2]
                 ELSE IF Truthy(sel.val)
                 THEN [ret |-> Value(d.val), compress |-> c2]
                 ELSE CompressNextResultDataFirst(c2)

\* PyItertoolsCompress::next: the loop, one iteration per unfolding
RECURSIVE CompressNextResult(_)
CompressNextResult(c) ==
    LET sel == CallNext(c.selector)
        c1 == [c EXCEPT !.selector = sel.it]
    IN  IF ~sel.ok
        THEN [ret |-> Stop, compress |-> c1]
        ELSE LET verdict == Truthy(sel.val)
                 d == CallNext(c1.data)
                 c2 == [c1 EXCEPT !.data = d.it]
             IN  IF ~d.ok
                 THEN [ret |-> Stop, compress |-> c2]
                 ELSE IF verdict
                 THEN [ret |-> Value(d.val), compress |-> c2]
                 ELSE CompressNextResult(c2)

\* The data elements are opaque and pairwise distinct, the selectors 0 or 1.
CompressObjects ==
    {CompressNew(Pool(1, n), selector) :
        n \in 0..MaxCompressLen, selector \in SeqsUpTo({0, 1}, MaxCompressLen)}

CompressObsInit == [out |-> <<>>, exh |-> FALSE]

CompressNext ==
    /\ compress # Idle
    /\ LET r == CompressNextResult(compress) IN
       /\ compress' = r.compress
       /\ ret' = [op |-> "compress", who |-> 0, kind |-> r.ret.kind, val |-> r.ret.val]
       /\ obs' = IF r.ret.kind = "value"
                 THEN [obs EXCEPT !.out = Append(@, r.ret.val)]
                 ELSE [obs EXCEPT !.exh = TRUE]
    /\ Frame("compress")

NextCompress == CompressNext

(***************************************************************************)
(* dropwhile                                                               *)
(***************************************************************************)
\* A plausible slip: the flag is left unset when the first value is let through.
DropwhileStartForgets(d) == d

\* "zelf.start_flag.store(true)"
DropwhileStart(d) == [d EXCEPT !.start_flag = TRUE]

\* PyItertoolsDropwhile::next, the loop that runs while the flag is unset;
\* invoked counts the calls of the predicate, pulled the calls of call_next
RECURSIVE DropwhileLoop(_, _)
DropwhileLoop(d, n) ==
    LET r == CallNext(d.iterable)
        d1 == [d EXCEPT !.iterable = r.it]
    IN  IF ~r.ok
        THEN [ret |-> Stop, dropwhile |-> d1, pulled |-> n + 1, invoked |-> n]
        ELSE IF ~Verdict(d.predicate, r.val)
        THEN [ret |-> Value(r.val), dropwhile |-> DropwhileStart(d1),
              pulled |-> n + 1, invoked |-> n + 1]
        ELSE DropwhileLoop(d1, n + 1)

\* PyItertoolsDropwhile::next
DropwhileNextResult(d) ==
    IF ~d.start_flag
    THEN DropwhileLoop(d, 0)
    ELSE LET r == CallNext(d.iterable)
             d1 == [d EXCEPT !.iterable = r.it]
         IN  [ret |-> IF r.ok THEN Value(r.val) ELSE Stop, dropwhile |-> d1,
              pulled |-> 1, invoked |-> 0]

DropwhileObjects ==
    {DropwhileNew(predicate, items) :
        predicate \in SUBSET TakeVals, items \in SeqsUpTo(TakeVals, MaxDropLen)}

DropwhileObsInit == [out |-> <<>>, exh |-> FALSE]

DropwhileNext ==
    /\ dropwhile # Idle
    /\ LET r == DropwhileNextResult(dropwhile) IN
       /\ dropwhile' = r.dropwhile
       /\ ret' = [op |-> "dropwhile", who |-> 0, kind |-> r.ret.kind, val |-> r.ret.val,
                  pulled |-> r.pulled, invoked |-> r.invoked]
       /\ obs' = IF r.ret.kind = "value"
                 THEN [obs EXCEPT !.out = Append(@, r.ret.val)]
                 ELSE [obs EXCEPT !.exh = TRUE]
    /\ Frame("dropwhile")

NextDropwhile == DropwhileNext

(***************************************************************************)
(* Specifications                                                          *)
(***************************************************************************)
Init(k) ==
    /\ tee \in CASE k = "tee" -> TeeObjects
                 [] k = "tee_steps" -> TeeStepsObjects
                 [] k = "tee_copy" -> TeeCopyObjects
                 [] OTHER -> {Idle}
    /\ groupby \in IF k \in {"groupby", "groupby_steps"} THEN GroupByObjects ELSE {Idle}
    /\ chain \in CASE k = "chain" -> ChainObjects
                   [] k = "chain_errors" -> FallibleChainObjects
                   [] OTHER -> {Idle}
    /\ cycle \in CASE k = "cycle" -> CycleObjects
                   [] k = "cycle_resuming" -> ResumingCycleObjects
                   [] OTHER -> {Idle}
    /\ islice \in CASE k = "islice" -> IsliceObjects
                    [] k = "islice_edge" -> IsliceEdgeObjects
                    [] OTHER -> {Idle}
    /\ product \in IF k = "product" THEN ProductObjects ELSE {Idle}
    /\ combinations \in IF k = "combinations" THEN CombinationsObjects ELSE {Idle}
    /\ permutations \in IF k = "permutations" THEN PermutationsObjects ELSE {Idle}
    /\ ziplongest \in CASE k = "ziplongest" -> ZipLongestObjects
                        [] k = "ziplongest_errors" -> FallibleZipLongestObjects
                        [] k = "ziplongest_resuming" -> ResumingZipLongestObjects
                        [] OTHER -> {Idle}
    /\ cwr \in IF k = "cwr" THEN CwrObjects ELSE {Idle}
    /\ takewhile \in IF k = "takewhile" THEN TakewhileObjects ELSE {Idle}
    /\ repeat_it \in IF k = "repeat" THEN RepeatObjects ELSE {Idle}
    /\ pairwise \in IF k = "pairwise" THEN PairwiseObjects ELSE {Idle}
    /\ compress \in IF k = "compress" THEN CompressObjects ELSE {Idle}
    /\ dropwhile \in IF k = "dropwhile" THEN DropwhileObjects ELSE {Idle}
    /\ pc = CASE k = "pairwise" -> PairwisePcInit
              [] k = "groupby_steps" -> GroupByPcInit
              [] k = "tee_steps" -> TeePcInit(tee)
              [] OTHER -> Idle
    /\ built = Idle
    /\ upstream = <<>>
    /\ ret = NoCall
    /\ obs = CASE k = "tee" -> TeeObsInit(tee)
               [] k = "groupby" -> GroupByObsInit
               [] k \in {"chain", "chain_errors"} -> ChainObsInit
               [] k \in {"cycle", "cycle_resuming"} -> CycleObsInit
               [] k \in {"islice", "islice_edge"} -> IsliceObsInit(islice)
               [] k \in {"ziplongest", "ziplongest_errors", "ziplongest_resuming"}
                     -> ZipLongestObsInit
               [] k = "takewhile" -> TakewhileObsInit
               [] k = "repeat" -> RepeatObsInit(repeat_it)
               [] k = "pairwise" -> PairwiseObsInit
               [] k = "compress" -> CompressObsInit
               [] k = "dropwhile" -> DropwhileObsInit
               [] k = "groupby_steps" -> GroupByStepsObsInit
               [] k = "tee_steps" -> TeeStepsObsInit(tee)
               [] k = "tee_copy" -> TeeCopyObsInit(tee)
               [] k = "construction" -> EnumObsInit
               [] k \in {"product", "combinations", "permutations", "cwr"} -> EnumObsInit

SpecTee == Init("tee") /\ [][NextTee]_vars
SpecGroupBy == Init("groupby") /\ [][NextGroupBy]_vars
SpecChain == Init("chain") /\ [][NextChain]_vars
SpecCycle == Init("cycle") /\ [][NextCycle]_vars
SpecIslice == Init("islice") /\ [][NextIslice]_vars
SpecProduct == Init("product") /\ [][NextProduct]_vars
SpecCombinations == Init("combinations") /\ [][NextCombinations]_vars
SpecPermutations == Init("permutations") /\ [][NextPermutations]_vars
SpecCwr == Init("cwr") /\ [][NextCwr]_vars

\* One of the four combinatoric generators is constructed and advanced.
Enumerators == {"product", "combinations", "cwr", "permutations"}
InitEnumerators == \E k \in Enumerators : Init(k)
NextEnumerators == NextProduct \/ NextCombinations \/ NextCwr \/ NextPermutations
SpecEnumerators == InitEnumerators /\ [][NextEnumerators]_vars

SpecTakewhile == Init("takewhile") /\ [][NextTakewhile]_vars
SpecRepeat == Init("repeat") /\ [][NextRepeat]_vars
SpecConstruction == Init("construction") /\ [][NextConstruction]_vars
SpecPairwise == Init("pairwise") /\ [][NextPairwise]_vars
SpecGroupBySteps == Init("groupby_steps") /\ [][NextGroupBySteps]_vars
SpecTeeSteps == Init("tee_steps") /\ [][NextTeeSteps]_vars

\* chain or zip_longest over sources that may raise
InitFallible == Init("chain_errors") \/ Init("ziplongest_errors")
NextFallible == NextChain \/ NextZipLongest
SpecFallible == InitFallible /\ [][NextFallible]_vars

\* cycle or zip_longest over sources whose exhaustion need not be sticky
InitResuming == Init("cycle_resuming") \/ Init("ziplongest_resuming")
NextResuming == NextCycle \/ NextZipLongest
SpecResuming == InitResuming /\ [][NextResuming]_vars
SpecTeeCopy == Init("tee_copy") /\ [][NextTeeCopy]_vars
SpecIsliceEdge == Init("islice_edge") /\ [][NextIslice]_vars
SpecCompress == Init("compress") /\ [][NextCompress]_vars
SpecDropwhile == Init("dropwhile") /\ [][NextDropwhile]_vars
SpecZipLongest == Init("ziplongest") /\ [][NextZipLongest]_vars

(***************************************************************************)
(* Properties of tee                                                       *)
(***************************************************************************)
\* C1: under every interleaving of whole next() calls on the n cursors of
\* tee(source, n), what a cursor has produced so far is the source's prefix of
\* that length (its k-th value is the k-th source element, nothing skipped or
\* duplicated), and a cursor signals exhaustion only after it has produced
\* the whole source; no call panics.
C1_TeeReproducesSource ==
    /\ ret.kind # "panic"
    /\ \A c \in DOMAIN tee.index :
        /\ IsPrefix(obs.out[c], tee.tee_data.iterable.items)
        /\ Len(obs.out[c]) = tee.index[c]
        /\ obs.exh[c] => obs.out[c] = tee.tee_data.iterable.items

\* A cursor that lags behind an already exhausted sibling has just read a
\* buffered value that differs from the newest one.
C1_Witness ==
    /\ ret.op = "tee" /\ ret.kind = "value"
    /\ \E a \in DOMAIN tee.index :
        /\ a # ret.who /\ obs.exh[a]
        /\ tee.index[ret.who] < tee.index[a]
        /\ ret.val # tee.tee_data.values[Len(tee.tee_data.values)]

(***************************************************************************)
(* Properties of groupby                                                   *)
(***************************************************************************)
GroupKeyOf(v) == IF groupby.key_func # None THEN Invoke(groupby.key_func, v) ELSE v

GroupsFlat == Concat([i \in 1..Len(obs.groups) |-> obs.groups[i].vals])

\* C2: when every grouper is drained before the outer next() is called again,
\* the groups delivered are the maximal runs of adjacent elements of equal
\* key, in source order: their concatenation is the part of the source
\* delivered so far (the whole source once the outer iterator is exhausted),
\* every element of a group has the group's key, adjacent groups have
\* different keys and no closed group is empty.
C2_GroupByRuns ==
    obs.drained =>
        LET gs == obs.groups
            n == Len(gs)
            items == groupby.iterable.items
        IN  /\ IsPrefix(GroupsFlat, items)
            /\ \A i \in 1..n : \A j \in 1..Len(gs[i].vals) :
                  GroupKeyOf(gs[i].vals[j]) = gs[i].key
            /\ \A i \in 1..(n - 1) : gs[i].key # gs[i + 1].key /\ gs[i].vals # <<>>
            /\ (n > 0 /\ gs[n].vals = <<>>) =>
                  /\ Len(GroupsFlat) < Len(items)
                  /\ GroupKeyOf(items[Len(GroupsFlat) + 1]) = gs[n].key
            /\ obs.outer_exh => GroupsFlat = items /\ (n > 0 => gs[n].vals # <<>>)

\* Three groups were drained in turn, the first and the third with the same key.
C2_Witness ==
    /\ obs.drained /\ obs.outer_exh
    /\ Len(obs.groups) = 3
    /\ obs.groups[1].key = obs.groups[3].key
    /\ Len(obs.groups[1].vals) = 2

\* C3: a grouper issued before the latest call of the outer next() signals
\* exhaustion on every call, pulls nothing and leaves the shared record
\* unchanged; at most one grouper is current, and a grouper that is not
\* current never becomes current again.
C3_SupersededGrouperDead ==
    [][ /\ (ret'.op = "grouper" /\ ret'.who <= obs.superseded) =>
              (ret'.kind = "stop" /\ groupby' = groupby)
        /\ \A g \in 1..groupby.issued :
              ~IsCurrent(groupby.state, g) => ~IsCurrent(groupby'.state, g)
        /\ \A g, h \in 1..groupby'.issued :
              (IsCurrent(groupby'.state, g) /\ IsCurrent(groupby'.state, h)) => g = h
      ]_vars

\* A superseded grouper was advanced while the shared record held a value
\* buffered for the current group, and signalled exhaustion.
C3_Witness ==
    /\ ret.op = "grouper" /\ ret.kind = "stop"
    /\ ret.who <= obs.superseded
    /\ groupby.state.current_value # None
    /\ groupby.state.grouper # None

(***************************************************************************)
(* Properties of chain                                                     *)
(***************************************************************************)
\* C4: what chain has produced is a prefix of the concatenation of its
\* sources in list order, it signals exhaustion only when it has produced all
\* of it, and once the index has passed the last source every call signals
\* exhaustion.
C4_ChainConcat ==
    /\ IsPrefix(obs.out, Concat(chain.iterables))
    /\ obs.exh => (obs.out = Concat(chain.iterables) /\ chain.cur_idx = Len(chain.iterables))
    /\ (chain.cur_idx >= Len(chain.iterables) /\ ret.op = "chain") => ret.kind = "stop"
    /\ ret.kind = "stop" => chain.cur_idx = Len(chain.iterables)

\* chain over an empty source followed by a two-element source has produced
\* both elements and signalled exhaustion.
C4_Witness ==
    /\ obs.exh /\ ret.kind = "stop"
    /\ Len(chain.iterables) = 2
    /\ chain.iterables[1] = <<>>
    /\ Len(obs.out) = 2

(***************************************************************************)
(* Properties of cycle                                                     *)
(***************************************************************************)
\* C5: over a source of length L > 0 the k-th value produced (k from 0) is
\* source[k mod L], no call signals exhaustion or panics, and between calls
\* the replay index is in 0..L-1: it is 0 during the first pass and after
\* every return of the last buffered element.
C5_CycleRepeats ==
    LET items == cycle.iter.items
        L == Len(items)
    IN  L > 0 =>
          /\ ret.op = "cycle" => (ret.kind = "value" /\ ret.val = items[((obs.n - 1) % L) + 1])
          /\ obs.n = obs.calls
          /\ cycle.index \in 0..(L - 1)
          /\ cycle.index = IF obs.n <= L THEN 0 ELSE obs.n % L

\* cycle over a three-element source has produced seven values, the last one
\* the first element again.
C5_Witness ==
    /\ Len(cycle.iter.items) = 3
    /\ cycle.iter.items[1] # cycle.iter.items[3]
    /\ obs.n = 7
    /\ cycle.index = 1

IsliceExpected(len, start, stop, step) ==
    SelectSeq(Range(len),
              LAMBDA p : /\ p >= start
                         /\ (p - start) % step = 0
                         /\ (stop = None \/ p < stop[1]))

\* C7: with step >= 1, what islice has produced is a prefix of the source
\* elements at positions start, start + step, ... below stop (below the
\* source length without a stop), and all of them once it has signalled
\* exhaustion; no call panics.
C7_IsliceSelects ==
    islice.step >= 1 =>
        LET e == IsliceExpected(Len(islice.iterable.items), obs.start, islice.stop, islice.step)
        IN  /\ IsPrefix(obs.out, e)
            /\ obs.exh => obs.out = e
            /\ ret.kind # "panic"

\* islice(range(10), 2, 7, 2) has produced 2, 4, 6 and signalled exhaustion.
C7_Witness ==
    /\ islice.iterable.items = Range(10)
    /\ obs.start = 2 /\ islice.stop = Some(7) /\ islice.step = 2
    /\ obs.exh
    /\ obs.out = <<2, 4, 6>>

\* islice with start >= stop over a source longer than start has signalled
\* exhaustion without producing anything.
C7_WitnessEmpty ==
    /\ obs.exh /\ obs.out = <<>>
    /\ islice.stop # None /\ obs.start > islice.stop[1]
    /\ Len(islice.iterable.items) > obs.start

(***************************************************************************)
(* Properties of the combinatorial enumerators                             *)
(***************************************************************************)
LexLess(a, b) ==
    \E i \in 1..Len(a) : a[i] < b[i] /\ \A j \in 1..(i - 1) : a[j] = b[j]

\* the number of index vectors of S that precede t lexicographically
LexRank(t, S) == Cardinality({u \in S : LexLess(u, t)})

RECURSIVE Factorial(_)
Factorial(n) == IF n <= 0 THEN 1 ELSE n * Factorial(n - 1)

RECURSIVE SizeProduct(_, _)
SizeProduct(pools, from) ==
    IF from > Len(pools) THEN 1 ELSE Len(pools[from]) * SizeProduct(pools, from + 1)

\* The index vector that k index vectors precede in lexicographic order: the
\* digits of k in the mixed radix of the pool sizes, leftmost pool most
\* significant.
ProductIndexVector(pools, k) ==
    [i \in 1..Len(pools) |-> (k \div SizeProduct(pools, i + 1)) % Len(pools[i])]

\* The part of C8 that holds: the k-th tuple produced is the one whose index
\* vector has k - 1 predecessors in lexicographic order (so every tuple comes
\* once, rightmost pool fastest), exhaustion is signalled exactly after the
\* product of the pool sizes many tuples (none when a pool is empty), and no
\* call panics.
ProductEnumerates ==
    LET total == SizeProduct(product.pools, 1) IN
    /\ ret.kind # "panic"
    /\ obs.n <= total
    /\ ret.kind = "value" =>
          LET iv == ProductIndexVector(product.pools, obs.n - 1) IN
          ret.val = [i \in 1..Len(product.pools) |-> product.pools[i][iv[i] + 1]]
    /\ obs.exh => (obs.n = total /\ ret.kind = "stop")

\* C8 as stated: the enumeration, and every index below the size of its pool
\* in every reachable state.
C8_ProductAsStated ==
    /\ ProductEnumerates
    /\ \A i \in 1..Len(product.pools) : product.idxs[i] < Len(product.pools[i])

\* C8 amended: the enumeration, and every index over a non-empty pool below
\* the size of that pool; the index over an empty pool stays 0.
C8_ProductAmended ==
    /\ ProductEnumerates
    /\ \A i \in 1..Len(product.pools) :
          IF product.pools[i] = <<>>
          THEN product.idxs[i] = 0
          ELSE product.idxs[i] < Len(product.pools[i])

\* product over two pools of two elements, repeated once, has produced its
\* four tuples and signalled exhaustion.
C8_Witness ==
    /\ Len(product.pools) = 2
    /\ Len(product.pools[1]) = 2 /\ Len(product.pools[2]) = 2
    /\ obs.n = 4 /\ obs.exh

\* the strictly increasing index r-tuples over 0..n-1
CombinationsIndexVectors(n, r) ==
    {iv \in [1..r -> 0..(n - 1)] : \A i \in 1..(r - 1) : iv[i] < iv[i + 1]}

\* C9: the k-th tuple produced by combinations is the one whose strictly
\* increasing index tuple has k - 1 predecessors in lexicographic order;
\* exhaustion is signalled exactly after C(n, r) tuples: one empty tuple for
\* r = 0, none for r > n.
C9_CombinationsEnumerates ==
    LET n == Len(combinations.pool)
        r == combinations.r
        ivs == CombinationsIndexVectors(n, r)
    IN  /\ ret.kind # "panic"
        /\ ret.kind = "value" =>
              \E iv \in ivs :
                  /\ ret.val = [i \in 1..r |-> combinations.pool[iv[i] + 1]]
                  /\ LexRank(iv, ivs) = obs.n - 1
        /\ obs.n <= Cardinality(ivs)
        /\ obs.exh => (obs.n = Cardinality(ivs) /\ ret.kind = "stop")
        /\ Cardinality(ivs) = IF r > n THEN 0
                              ELSE Factorial(n) \div (Factorial(r) * Factorial(n - r))

\* combinations of a four-element pool, r = 2, has produced its six tuples,
\* the last one the two last elements, and signalled exhaustion.
C9_Witness ==
    /\ Len(combinations.pool) = 4 /\ combinations.r = 2
    /\ obs.n = 6 /\ obs.exh
    /\ combinations.indices = <<2, 3>>

\* the r-tuples of pairwise distinct positions of 0..n-1
PermutationsIndexVectors(n, r) ==
    {iv \in [1..r -> 0..(n - 1)] : \A i, j \in 1..r : i # j => iv[i] # iv[j]}

\* C10: the k-th tuple produced by permutations is the one whose tuple of r
\* distinct positions has k - 1 predecessors in lexicographic order (the
\* first is (0, ..., r-1)); exhaustion is signalled exactly after n!/(n-r)!
\* tuples: none for r > n, one empty tuple for r = 0.
C10_PermutationsEnumerates ==
    LET n == Len(permutations.pool)
        r == permutations.r
        ivs == PermutationsIndexVectors(n, r)
    IN  /\ ret.kind # "panic"
        /\ ret.kind = "value" =>
              \E iv \in ivs :
                  /\ ret.val = [i \in 1..r |-> permutations.pool[iv[i] + 1]]
                  /\ LexRank(iv, ivs) = obs.n - 1
        /\ obs.n <= Cardinality(ivs)
        /\ obs.exh => (obs.n = Cardinality(ivs) /\ ret.kind = "stop")
        /\ Cardinality(ivs) = IF r > n THEN 0 ELSE Factorial(n) \div Factorial(n - r)

\* permutations of a three-element pool with the default r has produced its
\* six orderings and signalled exhaustion.
C10_Witness ==
    /\ Len(permutations.pool) = 3 /\ permutations.r = 3
    /\ obs.n = 6 /\ obs.exh

(***************************************************************************)
(* Properties of zip_longest                                               *)
(***************************************************************************)
ZipLongestMaxLen ==
    LET lens == {Len(ziplongest.iterators[j].items) : j \in DOMAIN ziplongest.iterators}
    IN  IF lens = {} THEN 0 ELSE CHOOSE m \in lens : \A l \in lens : l <= m

\* C11: over finite sources with sticky exhaustion zip_longest produces
\* exactly max(len_i) tuples: position j of the k-th tuple is the k-th
\* element of source j when source j has one and the fill value otherwise;
\* a call signals exhaustion exactly when every source signals exhaustion
\* in it, so the first exhaustion comes right after the max(len_i)-th tuple
\* and no tuple follows it; with no sources the first call signals
\* exhaustion.
C11_ZipLongestPads ==
    /\ ret.kind # "panic"
    /\ Len(obs.out) <= ZipLongestMaxLen
    /\ obs.exh => Len(obs.out) = ZipLongestMaxLen
    /\ \A k \in 1..Len(obs.out) :
        /\ Len(obs.out[k]) = Len(ziplongest.iterators)
        /\ \A j \in DOMAIN ziplongest.iterators :
            obs.out[k][j] = IF k <= Len(ziplongest.iterators[j].items)
                            THEN ziplongest.iterators[j].items[k]
                            ELSE ziplongest.fillvalue
    /\ ret.kind = "stop" =>
        \A j \in DOMAIN ziplongest.iterators :
            ziplongest.iterators[j].pos = Len(ziplongest.iterators[j].items)
    /\ (ret.kind = "value" /\ ~obs.exh) =>
        \E j \in DOMAIN ziplongest.iterators :
            /\ ziplongest.iterators[j].pos = Len(obs.out)
            /\ Len(obs.out) <= Len(ziplongest.iterators[j].items)
    /\ (ziplongest.iterators = <<>> /\ ret.op # "none") => ret.kind = "stop"

\* Sources of lengths 3 and 1 have given three tuples, the last two padded,
\* and then exhaustion.
C11_Witness ==
    /\ Len(ziplongest.iterators) = 2
    /\ Len(ziplongest.iterators[1].items) = 3
    /\ Len(ziplongest.iterators[2].items) = 1
    /\ obs.exh /\ Len(obs.out) = 3
    /\ obs.out[3] = <<ziplongest.iterators[1].items[3], ziplongest.fillvalue>>

\* zip_longest() without sources has been advanced.
C11_WitnessEmpty == ziplongest.iterators = <<>> /\ ret.kind = "stop"

(***************************************************************************)
(* Properties shared by product, combinations,                             *)
(* combinations_with_replacement and permutations                          *)
(***************************************************************************)
\* The stop / exhausted flag of the generator that was constructed
EnumeratorFlag(p, c, w, q) ==
    \/ p # Idle /\ p.stop
    \/ c # Idle /\ c.exhausted
    \/ w # Idle /\ w.exhausted
    \/ q # Idle /\ q.exhausted

\* C12: in product, combinations, combinations_with_replacement and
\* permutations no call of next() clears a stop / exhausted flag that is
\* set, and once a call has signalled exhaustion every later call signals
\* exhaustion and produces no tuple.
C12_ExhaustionSticky ==
    [][/\ EnumeratorFlag(product, combinations, cwr, permutations)
            => EnumeratorFlag(product', combinations', cwr', permutations')
       /\ obs.exh => (ret'.kind = "stop" /\ obs'.n = obs.n)]_vars

\* permutations has recorded exhaustion in the call that first signalled it
\* (after tuples were produced), and a later call has signalled it again.
C12_Witness ==
    /\ permutations # Idle /\ permutations.exhausted
    /\ permutations.result # None
    /\ obs.n > 1 /\ obs.again /\ ret.kind = "stop"

(***************************************************************************)
(* Properties of takewhile                                                 *)
(***************************************************************************)
\* The longest prefix of items whose elements all satisfy the predicate
RECURSIVE LongestPrefix(_, _)
LongestPrefix(items, predicate) ==
    IF items = <<>> \/ Head(items) \notin predicate
    THEN <<>>
    ELSE <<Head(items)>> \o LongestPrefix(Tail(items), predicate)

\* C13: what takewhile has produced is a prefix of the longest prefix of
\* the source whose elements all satisfy the predicate, and all of it once
\* exhaustion has been signalled; after exhaustion every call signals
\* exhaustion; after the first false verdict a call neither pulls from the
\* source nor invokes the predicate, and leaves the object as it is.
C13_TakewhilePrefix ==
    /\ [](takewhile # Idle =>
            LET e == LongestPrefix(takewhile.iterable.items, takewhile.predicate)
            IN  /\ ret.kind # "panic"
                /\ IsPrefix(obs.out, e)
                /\ obs.exh => obs.out = e)
    /\ [][/\ obs.exh => (ret'.kind = "stop" /\ obs'.out = obs.out)
          /\ obs.refused => /\ ret'.kind = "stop"
                            /\ ~ret'.pulled /\ ~ret'.invoked
                            /\ takewhile' = takewhile]_vars

\* A call after the refusal, while the source still holds a value that the
\* predicate accepts.
C13_Witness ==
    /\ obs.refused /\ obs.again /\ obs.out # <<>>
    /\ takewhile.iterable.pos < Len(takewhile.iterable.items)
    /\ takewhile.iterable.items[takewhile.iterable.pos + 1] \in takewhile.predicate

(***************************************************************************)
(* Properties of repeat                                                    *)
(***************************************************************************)
\* C17: a repeat built with times = t >= 0 has produced at most t values,
\* each the object itself, and exactly t when it signals exhaustion, which
\* every later call repeats; its counter is t minus the number of values
\* produced (one less per value, never negative), its length hint is that
\* counter and its reduce arguments are (object, counter).  A repeat built
\* without times never signals exhaustion, reports "unsized" as its hint
\* and has the reduce arguments (object).
C17_RepeatCounts ==
    /\ [](repeat_it # Idle =>
           /\ ret.kind \notin {"panic"}
           /\ (ret.op = "repeat" /\ ret.kind = "value") => ret.val = repeat_it.object
           /\ obs.t # None =>
                /\ repeat_it.times # None
                /\ repeat_it.times[1] = obs.t[1] - obs.n
                /\ repeat_it.times[1] >= 0
                /\ obs.exh => obs.n = obs.t[1]
                /\ RepeatLengthHint(repeat_it) = [kind |-> "hint", val |-> obs.t[1] - obs.n]
                /\ RepeatReduce(repeat_it).val = <<repeat_it.object, obs.t[1] - obs.n>>
           /\ obs.t = None =>
                /\ ~obs.exh /\ obs.n = obs.calls
                /\ RepeatLengthHint(repeat_it).kind = "unsized"
                /\ RepeatReduce(repeat_it).val = <<repeat_it.object>>)
    /\ [][/\ obs.exh => (ret'.kind \in {"stop", "hint", "reduce"} /\ obs'.n = obs.n)
          /\ (repeat_it # Idle /\ repeat_it.times # None /\ repeat_it'.times # repeat_it.times)
                => (repeat_it'.times[1] = repeat_it.times[1] - 1 /\ obs'.n = obs.n + 1)]_vars

\* repeat(object, 3) has given three values, signalled exhaustion twice and
\* then reported the hint 0.
C17_Witness ==
    /\ obs.t = Some(3) /\ obs.n = 3 /\ obs.again
    /\ ret.kind = "hint" /\ ret.val = 0

\* An unbounded repeat has been advanced and asked for its hint.
C17_WitnessUnbounded == obs.t = None /\ obs.n = MaxRepeatCalls /\ ret.kind = "unsized"

C14_WitnessLazy ==
    /\ built # Idle /\ built.call.class = "tee" /\ built.kind = "object"
    /\ Len(upstream[1].items) = 2

\* An argument that pyobject_to_opt_usize refuses: not None and not an int
\* in 0 .. sys.maxsize
InvalidArg(a) == a.type = "str" \/ (a.type = "int" /\ (a.val < 0 \/ a.val > IsizeMax))

\* C15: constructing combinations, combinations_with_replacement or
\* permutations with a negative int r, or islice with a start, stop or step
\* that is a negative int, an int above sys.maxsize or a non-int other than
\* None (which stands for the default), raises ValueError: no object is
\* made, no next() ever returns anything, and the outcome is not
\* StopIteration.
C15_InvalidArguments ==
    built # Idle =>
        LET c == built.call.class
            args == built.call.args
        IN  (\/ c \in {"combinations", "cwr", "permutations"}
                   /\ args[1].type = "int" /\ args[1].val < 0
             \/ c = "islice" /\ \E i \in DOMAIN args : InvalidArg(args[i]))
            => /\ built.kind = "value_error" /\ built.kind # Stop.kind
               /\ built.obj = Idle
               /\ ret = NoCall /\ obs = EnumObsInit

\* islice was called with a step just above sys.maxsize.
C15_Witness ==
    /\ built # Idle /\ built.call.class = "islice"
    /\ Len(built.call.args) = 3
    /\ built.call.args[1] = PyInt(0) /\ built.call.args[2] = PyNone
    /\ built.call.args[3] = PyInt(IsizeMax + 1)
    /\ built.kind = "value_error"

\* permutations was called with a negative r.
C15_WitnessPermutations ==
    /\ built # Idle /\ built.call.class = "permutations"
    /\ built.call.args[1] = PyInt(0 - 1) /\ built.kind = "value_error"

\* C16 as stated: constructing repeat with a times that is negative or
\* above the index range raises ValueError.
C16_RepeatAsStated ==
    (/\ built # Idle /\ built.call.class = "repeat"
     /\ (built.call.args[1].val < 0 \/ built.call.args[1].val > IsizeMax))
    => built.kind = "value_error"

\* C16, amended: constructing repeat with a times above sys.maxsize raises
\* OverflowError at construction (no object is made, no next() happens); a
\* negative times is accepted as 0: the object is made with counter 0 and
\* every next() signals exhaustion without giving a value.
C16_RepeatAmended ==
    (built # Idle /\ built.call.class = "repeat") =>
        /\ built.call.args[1].val > IsizeMax =>
              /\ built.kind = "overflow_error" /\ built.obj = Idle
              /\ ret = NoCall /\ obs = EnumObsInit
        /\ built.call.args[1].val < 0 =>
              /\ built.kind = "object" /\ built.obj.times = Some(0)
              /\ ret.kind \in {"none", "stop"} /\ obs.n = 0

\* repeat(object, -1) has been advanced.
C16_Witness ==
    /\ built # Idle /\ built.call.class = "repeat"
    /\ built.call.args[1].val < 0 /\ obs.again

\* repeat(object, sys.maxsize + 1) has been called.
C16_WitnessOverflow ==
    /\ built # Idle /\ built.call.class = "repeat"
    /\ built.call.args[1].val = IsizeMax + 1 /\ built.kind = "overflow_error"

(***************************************************************************)
(* Properties of the locks                                                 *)
(***************************************************************************)
\* C18 as stated, for pairwise: whenever a call of next() is at a point
\* where external code runs (call_next), it holds no guard of the object's
\* lock, and no nested call of next() is ever blocked on that lock.
C18_NoLockAtExternalCall ==
    pairwise # Idle =>
        \A i \in DOMAIN pc.stack :
            /\ pc.stack[i].pc \in PairwiseExternal => ~pc.stack[i].guard
            /\ pc.stack[i].pc # "blocked"

\* The consequence alone: no nested call of next() waits for the write lock
\* while the outer call holds its read guard.
PairwiseNeverBlocked ==
    pairwise # Idle => \A i \in DOMAIN pc.stack : pc.stack[i].pc # "blocked"

(***************************************************************************)
(* Properties of groupby, step by step                                     *)
(***************************************************************************)
\* C19 as stated: when a call of the outer next() has run to its end after
\* a grouper's call of next() passed the currency check and released the
\* mutex, that call of the grouper signals exhaustion, returns no value and
\* leaves the shared record as the outer call set it.
C19_OvertakenGrouperSilent ==
    [][(/\ groupby # Idle
        /\ pc.grouper.at # "idle" /\ pc.grouper.overtaken
        /\ pc'.grouper.at = "idle")
       => (ret'.kind = "stop" /\ groupby'.state = groupby.state)]_vars

\* The two halves as state predicates over the history.
GrouperNeverStale == groupby # Idle => ~obs.stale
GrouperNeverOverwrites == groupby # Idle => ~obs.overwritten

(***************************************************************************)
(* Properties of tee, step by step                                         *)
(***************************************************************************)
\* C20 as stated: for an index i that two cursors' calls both found equal to
\* the length of the buffer, the source is pulled once for i, the buffer is
\* in source order, and every cursor that asked for i receives the i-th
\* element of the source (none is told the source is exhausted at i while
\* the source has an i-th element).
C20_IdempotentFill ==
    tee # Idle =>
        LET items == tee.tee_data.iterable.items IN
        \A i \in obs.raced :
            /\ obs.pulled[i] <= 1
            /\ IsPrefix(tee.tee_data.values, items)
            /\ \A c \in DOMAIN tee.index :
                /\ Len(obs.out[c]) > i => obs.out[c][i + 1] = items[i + 1]
                /\ i < Len(items) => i \notin obs.stopped[c]

\* The parts of C20, each alone.
TeePulledOnce == tee # Idle => \A i \in obs.raced : obs.pulled[i] <= 1
TeeBufferInOrder == tee # Idle => IsPrefix(tee.tee_data.values, tee.tee_data.iterable.items)
TeeReceivesSource ==
    tee # Idle => \A c \in DOMAIN tee.index : IsPrefix(obs.out[c], tee.tee_data.iterable.items)
TeeNoEarlyStop ==
    tee # Idle => \A c \in DOMAIN tee.index :
                    \A i \in obs.stopped[c] : i >= Len(tee.tee_data.iterable.items)

(***************************************************************************)
(* Properties of chain and zip_longest over sources that raise             *)
(***************************************************************************)
\* zip_longest's next() returned an exception: the cursor at some idx made
\* the pull that raised, no cursor after it was pulled, no tuple was produced
ZipLongestAbandoned ==
    /\ obs'.out = obs.out /\ obs'.exh = obs.exh
    /\ \E idx \in 1..Len(ziplongest.iterators) :
        LET it == ziplongest'.iterators[idx] IN
        /\ it.pos = ziplongest.iterators[idx].pos + 1
        /\ it.items[it.pos] = Raises
        /\ \A j \in (idx + 1)..Len(ziplongest.iterators) :
            ziplongest'.iterators[j] = ziplongest.iterators[j]

\* C21 as stated: a next() of chain that returns an exception of a source
\* leaves the source index and the cached cursor (absent, or the cursor of
\* the source at the index) as they were before the call; a next() of
\* zip_longest that returns one pulls no later source and produces no tuple.
C21_ErrorLeavesChainUntouched ==
    [][ret'.kind = "error" =>
        IF chain # Idle
        THEN /\ chain'.cur_idx = chain.cur_idx
             /\ (chain'.cached_iter = None) <=> (chain.cached_iter = None)
             /\ obs'.out = obs.out
        ELSE ZipLongestAbandoned]_vars

\* C21, amended: the source index is left at the source that raised (only
\* sources that signalled exhaustion in this call have been passed, none is
\* skipped), the cache is absent when opening raised and holds the cursor
\* that raised, pulled once, when the pull raised; zip_longest as stated.
C21_ErrorsPropagate ==
    [][ret'.kind = "error" =>
        IF chain # Idle
        THEN LET k == chain'.cur_idx
                 first == chain.cur_idx
                 carried == chain.cached_iter # None
             IN  /\ first <= k /\ k < Len(chain.iterables)
                 /\ chain'.iterables = chain.iterables
                 /\ \A j \in first..(k - 1) :
                        IF j = first /\ carried
                        THEN chain.cached_iter[1].pos = Len(chain.iterables[j + 1])
                        ELSE chain.iterables[j + 1] = <<>>
                 /\ IF chain'.cached_iter = None
                    THEN ~Opens(chain.iterables[k + 1])
                    ELSE LET c == chain'.cached_iter[1] IN
                         /\ c.items = chain.iterables[k + 1]
                         /\ c.pos = IF k = first /\ carried
                                    THEN chain.cached_iter[1].pos + 1 ELSE 1
                         /\ c.items[c.pos] = Raises
                 /\ obs'.out = obs.out
        ELSE ZipLongestAbandoned]_vars

\* chain raised from the first pull of a source it opened in the same call,
\* after passing an exhausted one
C21_Witness ==
    /\ chain # Idle /\ ret.kind = "error"
    /\ chain.cur_idx > 0 /\ chain.cached_iter # None
    /\ chain.cached_iter[1].pos = 1

\* chain raised from opening
C21_WitnessOpen == chain # Idle /\ ret.kind = "error" /\ chain.cached_iter = None

\* zip_longest raised while a later cursor has values left
C21_WitnessZipLongest ==
    /\ ziplongest # Idle /\ ret.kind = "error"
    /\ \E j \in 1..Len(ziplongest.iterators) :
        /\ ziplongest.iterators[j].pos = 0
        /\ ziplongest.iterators[j].items # <<>>

(***************************************************************************)
(* Properties of tee with copies                                           *)
(***************************************************************************)
\* what the source yields: its items without the positions that raise
Produced(items) == SelectSeq(items, LAMBDA x : x # Raises)

\* C22: a copy of a cursor at read index i is a new cursor on the same
\* buffer with read index i, made without a pull from the source; from then
\* on the copy and its origin each produce the source's elements i, i+1, ...
\* in order, and a next() of one cursor leaves the read index of every other
\* cursor as it was.
C22_CopyInLockstep ==
    /\ [](tee # Idle =>
            \A c \in DOMAIN tee.index :
                /\ obs.start[c] <= tee.index[c]
                /\ tee.index[c] <= Len(Produced(tee.tee_data.iterable.items))
                /\ obs.out[c] = SubSeq(Produced(tee.tee_data.iterable.items),
                                       obs.start[c] + 1, tee.index[c]))
    /\ [][/\ ret'.op = "tee_copy" =>
                /\ tee'.tee_data = tee.tee_data
                /\ DOMAIN tee'.index = 1..(Len(tee.index) + 1)
                /\ tee'.index[ret'.val] = tee.index[ret'.who]
                /\ obs'.start[ret'.val] = tee.index[ret'.who]
                /\ \A d \in DOMAIN tee.index : tee'.index[d] = tee.index[d]
          /\ ret'.op = "tee" =>
                \A d \in DOMAIN tee.index \ {ret'.who} : tee'.index[d] = tee.index[d]]_vars

\* a copy made at a read index above 0 and its origin have both gone on
C22_Witness ==
    /\ tee # Idle
    /\ \E c, d \in DOMAIN tee.index :
        /\ obs.start[c] = 0 /\ obs.start[d] > 0
        /\ tee.index[d] > obs.start[d]
        /\ tee.index[c] > obs.start[d]

\* C23: under whole calls of next() and copy on the cursors of one buffer,
\* the buffer only grows by appending and its entries never change; it holds
\* the values the source has yielded so far, each pulled once; a cursor's
\* read index never decreases and never exceeds the buffer's length; a next()
\* at a filled index does not pull; a next() that raises or signals
\* exhaustion leaves the buffer and the cursor's read index as they were.
C23_BufferMonotonic ==
    /\ [](tee # Idle =>
            LET data == tee.tee_data IN
            /\ data.values = Produced(SubSeq(data.iterable.items, 1, data.iterable.pos))
            /\ \A c \in DOMAIN tee.index : tee.index[c] <= Len(data.values))
    /\ [][LET values == tee.tee_data.values
              c == ret'.who
          IN  /\ IsPrefix(values, tee'.tee_data.values)
              /\ Len(tee'.tee_data.values) <= Len(values) + 1
              /\ \A d \in DOMAIN tee.index : tee'.index[d] >= tee.index[d]
              /\ (ret'.op = "tee" /\ tee.index[c] < Len(values))
                    => (tee'.tee_data = tee.tee_data /\ ret'.kind = "value")
              /\ (ret'.op = "tee" /\ ret'.kind # "value")
                    => (tee'.tee_data.values = values /\ tee'.index[c] = tee.index[c])]_vars

\* two cursors have produced the same entry, one by filling it and one by
\* reading it; one call has raised and one has signalled exhaustion
C23_Witness ==
    /\ tee # Idle
    /\ tee.tee_data.iterable.pos > Len(tee.tee_data.values)
    /\ \E c \in DOMAIN tee.index : obs.exh[c]
    /\ \E c, d \in DOMAIN tee.index : c # d /\ obs.out[c] # <<>> /\ obs.out[d] # <<>>

(***************************************************************************)
(* Properties of groupby: the hand-over between groups                     *)
(***************************************************************************)
\* C24: the current grouper that pulls a value of another key stores the
\* value and the key in the shared record, sets next_group, clears the
\* grouper slot and signals exhaustion; the outer next() that follows pulls
\* nothing and returns the stored key with a fresh grouper, whose first value
\* is the stored value (produced without a pull).  Whenever next_group is
\* set, a value is buffered and no grouper is current.
C24_GroupHandOver ==
    /\ [](groupby # Idle =>
            LET state == groupby.state IN
            /\ state.next_group => (state.current_value # None /\ state.grouper = None)
            /\ \A g \in 1..groupby.issued :
                  (IsCurrent(state, g) /\ obs.groups[g].vals = <<>>)
                     => state.current_value # None)
    /\ [][LET state == groupby.state
              a == GroupByAdvance(groupby.iterable, groupby.key_func)
          IN  /\ (/\ ret'.op = "grouper" /\ IsCurrent(state, ret'.who)
                  /\ state.current_value = None
                  /\ a.ok /\ a.key # state.current_key[1])
                    => /\ ret'.kind = "stop"
                       /\ groupby'.iterable = a.it
                       /\ groupby'.state.current_value = Some(a.value)
                       /\ groupby'.state.current_key = Some(a.key)
                       /\ groupby'.state.next_group
                       /\ groupby'.state.grouper = None
              /\ (ret'.op = "groupby" /\ state.next_group)
                    => /\ groupby'.iterable = groupby.iterable
                       /\ ret'.kind = "value"
                       /\ ret'.val = <<state.current_key[1], groupby.issued + 1>>
                       /\ IsCurrent(groupby'.state, groupby.issued + 1)
                       /\ groupby'.state.current_value = state.current_value
                       /\ groupby'.state.current_key = state.current_key
                       /\ ~groupby'.state.next_group
              /\ (/\ ret'.op = "grouper" /\ ret'.kind = "value"
                  /\ obs.groups[ret'.who].vals = <<>>)
                    => /\ ret'.val = state.current_value[1]
                       /\ groupby'.iterable = groupby.iterable]_vars

\* The first grouper ran into the second group, the outer next() issued the
\* second grouper, which produced the stored value.
C24_Witness ==
    /\ groupby # Idle /\ obs.drained
    /\ ret.op = "grouper" /\ ret.who = 2 /\ ret.kind = "value"
    /\ obs.groups[2].vals = <<ret.val>>
    /\ groupby.iterable.items[Len(obs.groups[1].vals) + 1] = ret.val

(***************************************************************************)
(* Properties of islice: the counters                                      *)
(***************************************************************************)
\* next() returned StopIteration from the test of the stop bound: the loop
\* had brought cur up to next, and cur had reached stop
IsliceStoppedAtBound ==
    /\ ret.op = "islice" /\ ret.kind = "stop"
    /\ islice.cur >= islice.next
    /\ IsliceStopReached(islice.cur, islice.stop)

\* C25: cur never decreases and is the number of elements pulled from the
\* source; once next() has signalled exhaustion because cur reached stop,
\* every later next() signals exhaustion, pulls nothing and leaves cur and
\* next as they are.
C25_IsliceCounts ==
    /\ [](islice # Idle => islice.cur = islice.iterable.pos)
    /\ [][/\ islice'.cur >= islice.cur
          /\ IsliceStoppedAtBound =>
                /\ ret'.kind = "stop"
                /\ islice'.iterable = islice.iterable
                /\ islice'.cur = islice.cur /\ islice'.next = islice.next
                /\ IsliceStoppedAtBound']_vars

\* islice has produced a value, has skipped elements, has stopped at its
\* stop bound with source elements left, and was called again.
C25_Witness ==
    /\ islice # Idle /\ IsliceStoppedAtBound
    /\ obs.again /\ obs.out # <<>>
    /\ islice.cur > Len(obs.out)
    /\ islice.cur < Len(islice.iterable.items)

\* C26 as stated: after a produced value the update of next never wraps and
\* never fails; when next + step passes the end of usize, next becomes the
\* stop bound and the value is returned.
C26_TargetSaturates ==
    [][ret'.op = "islice" =>
        /\ ret'.kind # "panic"
        /\ ret'.kind = "value" =>
              islice'.next = IF islice.next + islice.step >= UsizeModulus
                             THEN islice.stop[1]
                             ELSE islice.next + islice.step]_vars

\* The sum passes the end of usize only when no stop bound is there to take:
\* with a stop bound the call has returned at the stop test before.
IsliceOverflowOnlyUnbounded ==
    [][(ret'.op = "islice" /\ ret'.kind \in {"value", "panic"}
        /\ islice.next + islice.step >= UsizeModulus)
          => (islice.stop = None /\ ret'.kind = "panic")]_vars

(***************************************************************************)
(* Properties of compress                                                  *)
(***************************************************************************)
\* the data elements whose paired selector is truthy
RECURSIVE Selected(_, _)
Selected(data, selector) ==
    IF data = <<>> \/ selector = <<>> THEN <<>>
    ELSE (IF Truthy(Head(selector)) THEN <<Head(data)>> ELSE <<>>)
            \o Selected(Tail(data), Tail(selector))

\* what compress has produced is a prefix of the selected data elements, and
\* all of them once it has signalled exhaustion
CompressSelects ==
    compress # Idle =>
        LET e == Selected(compress.data.items, compress.selector.items) IN
        /\ IsPrefix(obs.out, e)
        /\ obs.exh => obs.out = e

\* the selector values and the data values pulled by the step just taken
SelectorPulled == compress'.selector.pos - compress.selector.pos
DataPulled == compress'.data.pos - compress.data.pos

\* C27 as stated: compress produces the data elements whose paired selector
\* is truthy, in order; in each step one data value is pulled for every
\* selector value pulled, and none when the selector signals exhaustion.
C27_CompressLockstep ==
    /\ []CompressSelects
    /\ [][DataPulled = SelectorPulled]_vars

\* C27, amended: one data value is pulled for every selector value pulled,
\* but for the selector value pulled in a step in which the data source turns
\* out to be exhausted: that step signals exhaustion.  A data value is never
\* pulled without a selector value pulled before it.
C27_CompressLockstepAmended ==
    /\ []CompressSelects
    /\ [][/\ DataPulled <= SelectorPulled
          /\ SelectorPulled <= DataPulled + 1
          /\ SelectorPulled = DataPulled + 1 =>
                /\ ret'.kind = "stop"
                /\ compress'.data.pos = Len(compress.data.items)
          /\ (ret'.kind = "stop" /\ compress'.data.pos < Len(compress.data.items)) =>
                /\ compress'.selector.pos = Len(compress.selector.items)
                /\ DataPulled = SelectorPulled]_vars

\* compress has passed a falsy selector, produced a value, and signalled
\* exhaustion with a selector value pulled and no data value left for it
C27_Witness ==
    /\ compress # Idle /\ obs.exh /\ obs.out # <<>>
    /\ Len(obs.out) < compress.data.pos
    /\ compress.selector.pos > compress.data.pos

\* the selector ran out first: data values are left
C27_WitnessSelectorShort ==
    /\ compress # Idle /\ obs.exh /\ obs.out # <<>>
    /\ compress.data.pos < Len(compress.data.items)

(***************************************************************************)
(* Properties of dropwhile                                                 *)
(***************************************************************************)
\* the source without its longest prefix of values the predicate accepts
RECURSIVE DropPrefix(_, _)
DropPrefix(items, predicate) ==
    IF items = <<>> \/ Head(items) \notin predicate
    THEN items
    ELSE DropPrefix(Tail(items), predicate)

\* C28: what dropwhile has produced is a prefix of the source without its
\* longest prefix of accepted values, and all of it at exhaustion; start_flag
\* is never cleared, and it is set by the call that returns the first value
\* the predicate refuses and by no other; every call after that makes one
\* pull from the source and passes on what it gets (the next element as it
\* is, accepted by the predicate or not, or the exhaustion of the source)
\* without invoking the predicate.
C28_DropwhileForwards ==
    /\ [](dropwhile # Idle =>
            LET e == DropPrefix(dropwhile.iterable.items, dropwhile.predicate) IN
            /\ IsPrefix(obs.out, e)
            /\ obs.exh => obs.out = e
            /\ dropwhile.start_flag <=> obs.out # <<>>)
    /\ [][LET it == dropwhile.iterable IN
          /\ dropwhile.start_flag => dropwhile'.start_flag
          /\ (~dropwhile.start_flag /\ dropwhile'.start_flag) <=>
                (~dropwhile.start_flag /\ ret'.kind = "value")
          /\ (~dropwhile.start_flag /\ ret'.kind = "value") =>
                /\ ret'.val \notin dropwhile.predicate
                /\ ret'.invoked = ret'.pulled
                /\ \A j \in (it.pos + 1)..(dropwhile'.iterable.pos - 1) :
                      it.items[j] \in dropwhile.predicate
          /\ dropwhile.start_flag =>
                /\ ret'.pulled = 1 /\ ret'.invoked = 0
                /\ IF it.pos < Len(it.items)
                   THEN /\ ret'.kind = "value" /\ ret'.val = it.items[it.pos + 1]
                        /\ dropwhile'.iterable.pos = it.pos + 1
                   ELSE ret'.kind = "stop" /\ dropwhile' = dropwhile]_vars

\* after dropping an accepted value and letting a refused one through,
\* dropwhile has returned a value the predicate accepts
C28_Witness ==
    /\ dropwhile # Idle /\ dropwhile.start_flag
    /\ ret.kind = "value" /\ ret.val \in dropwhile.predicate
    /\ Len(obs.out) >= 2
    /\ dropwhile.iterable.pos > Len(obs.out)

(***************************************************************************)
(* Properties of chain: the cache and the order of opening                 *)
(***************************************************************************)
\* the first n events of a chain that opens its sources one after the other:
\* source 0 opened, source 0 exhausted, source 1 opened, ...
ChainInTurn(n) ==
    [i \in 1..n |-> IF i % 2 = 1
                    THEN [event |-> "opened", source |-> (i - 1) \div 2]
                    ELSE [event |-> "exhausted", source |-> (i - 2) \div 2]]

\* C29: between calls of next() the cache is absent exactly when no cursor
\* has been opened yet for the source at cur_idx; each source is opened at
\* most once, and source k only after the cursors of the sources before it
\* have signalled exhaustion (the events are: 0 opened, 0 exhausted, 1
\* opened, ...); cur_idx is the number of exhausted cursors, never decreases
\* and never exceeds the number of sources.
C29_ChainCache ==
    /\ [](chain # Idle =>
            /\ obs.log = ChainInTurn(Len(obs.log))
            /\ chain.cached_iter = None <=>
                  ~\E i \in 1..Len(obs.log) :
                      obs.log[i] = [event |-> "opened", source |-> chain.cur_idx]
            /\ chain.cur_idx = Len(obs.log) \div 2
            /\ chain.cur_idx <= Len(chain.iterables)
            /\ \A i \in 1..Len(obs.log) : obs.log[i].source < Len(chain.iterables))
    /\ [][chain # Idle => chain'.cur_idx >= chain.cur_idx]_vars

\* chain holds the cursor of its second source, opened after the first
\* source's cursor had produced its values and signalled exhaustion
C29_Witness ==
    /\ chain # Idle
    /\ chain.cur_idx = 1 /\ chain.cached_iter # None
    /\ Len(obs.out) > Len(chain.iterables[1]) /\ chain.iterables[1] # <<>>
    /\ Len(obs.log) = 3

\* chain is past its last source with nothing cached
C29_WitnessEnd ==
    /\ chain # Idle /\ obs.exh /\ obs.out # <<>>
    /\ chain.cur_idx = Len(chain.iterables) /\ chain.cached_iter = None

(***************************************************************************)
(* Properties of combinations: the index vector                            *)
(***************************************************************************)
\* the index vector iv of length r over a pool of n is strictly increasing
\* and each index i (counted from 0) is at most i + n - r
CombinationsWellFormed(iv, n, r) ==
    /\ Len(iv) = r
    /\ \A i \in 1..(r - 1) : iv[i] < iv[i + 1]
    /\ \A i \in 1..r : iv[i] >= 0 /\ iv[i] <= (i - 1) + n - r /\ iv[i] < n

\* b is obtained from a by incrementing the rightmost index that is not at
\* its maximum and setting every index to its right to its left neighbour
\* plus one
CombinationsRightmostRule(a, b, n, r) ==
    \E p \in 1..r :
        /\ a[p] # (p - 1) + n - r
        /\ \A j \in (p + 1)..r : a[j] = (j - 1) + n - r
        /\ \A j \in 1..(p - 1) : b[j] = a[j]
        /\ b[p] = a[p] + 1
        /\ \A j \in (p + 1)..r : b[j] = b[j - 1] + 1

\* c is a combinations object that is not exhausted, with 1 <= r <= n
CombinationsLive(c) == c # Idle /\ ~c.exhausted /\ 1 <= c.r /\ c.r <= Len(c.pool)

\* C30: while combinations over a pool of n with 1 <= r <= n is not
\* exhausted, its index vector has length r, is strictly increasing and has
\* indices[i] <= i + n - r; an advance that leaves it not exhausted replaces
\* the vector by its lexicographic successor among these vectors, the one
\* the rightmost-index rule gives (the advance from the last vector
\* marks the object exhausted instead).
C30_IndexVector ==
    /\ [](CombinationsLive(combinations) =>
            /\ CombinationsWellFormed(combinations.indices,
                                      Len(combinations.pool), combinations.r)
            /\ combinations.indices
                  \in CombinationsIndexVectors(Len(combinations.pool), combinations.r))
    /\ [][CombinationsLive(combinations) =>
            LET n == Len(combinations.pool)
                r == combinations.r
                ivs == CombinationsIndexVectors(n, r)
            IN  /\ combinations'.pool = combinations.pool /\ combinations'.r = r
                /\ IF combinations'.exhausted
                   THEN /\ LexRank(combinations.indices, ivs) = Cardinality(ivs) - 1
                        /\ combinations.indices = [i \in 1..r |-> (i - 1) + n - r]
                   ELSE /\ combinations'.indices \in ivs
                        /\ LexRank(combinations'.indices, ivs)
                              = LexRank(combinations.indices, ivs) + 1
                        /\ CombinationsRightmostRule(combinations.indices,
                                                     combinations'.indices, n, r)]_vars

\* combinations of a five-element pool, r = 3, stands at <<1, 2, 3>> after
\* an advance from <<0, 3, 4>> that moved two indices back to the left
C30_Witness ==
    /\ combinations # Idle /\ ~combinations.exhausted
    /\ Len(combinations.pool) = 5 /\ combinations.r = 3
    /\ combinations.indices = <<1, 2, 3>>
    /\ obs.n = 6 /\ ret.kind = "value"
    /\ ret.val = <<combinations.pool[1], combinations.pool[4], combinations.pool[5]>>

(***************************************************************************)
(* Properties of combinations_with_replacement                             *)
(***************************************************************************)
\* the non-decreasing index r-tuples over 0..n-1
CwrIndexVectors(n, r) ==
    {iv \in [1..r -> 0..(n - 1)] : \A i \in 1..(r - 1) : iv[i] <= iv[i + 1]}

\* C31: the k-th tuple produced by combinations_with_replacement is the one
\* whose non-decreasing index tuple has k - 1 predecessors in lexicographic
\* order, so each such tuple is produced once and in order; exhaustion is
\* signalled exactly after all of them, C(n+r-1, r) for n >= 1, none for an
\* empty pool and r > 0, one empty tuple for r = 0; while the object is not
\* exhausted its index vector is non-decreasing with every index below n.
C31_CwrEnumerates ==
    LET n == Len(cwr.pool)
        r == cwr.r
        ivs == CwrIndexVectors(n, r)
    IN  /\ ret.kind # "panic"
        /\ ret.kind = "value" =>
              \E iv \in ivs :
                  /\ ret.val = [i \in 1..r |-> cwr.pool[iv[i] + 1]]
                  /\ LexRank(iv, ivs) = obs.n - 1
        /\ obs.n <= Cardinality(ivs)
        /\ obs.exh => (obs.n = Cardinality(ivs) /\ ret.kind = "stop")
        /\ (obs.n = Cardinality(ivs) /\ ret.kind = "value") => cwr.exhausted
        /\ cwr.exhausted => obs.n = Cardinality(ivs)
        /\ ~cwr.exhausted =>
              /\ Len(cwr.indices) = r
              /\ \A i \in 1..r : cwr.indices[i] >= 0 /\ cwr.indices[i] < n
              /\ \A i \in 1..(r - 1) : cwr.indices[i] <= cwr.indices[i + 1]
              /\ cwr.indices \in ivs /\ LexRank(cwr.indices, ivs) = obs.n
        /\ Cardinality(ivs) =
              IF r = 0 THEN 1
              ELSE IF n = 0 THEN 0
              ELSE Factorial(n + r - 1) \div (Factorial(r) * Factorial(n - 1))

\* combinations_with_replacement of a three-element pool, r = 2, has
\* produced its six tuples, the last one the last element twice, and
\* signalled exhaustion.
C31_Witness ==
    /\ Len(cwr.pool) = 3 /\ cwr.r = 2
    /\ obs.n = 6 /\ obs.exh
    /\ cwr.indices = <<2, 2>>

\* an empty pool with r > 0 signals exhaustion at the first call
C31_WitnessEmptyPool ==
    /\ cwr # Idle /\ Len(cwr.pool) = 0 /\ cwr.r = 2 /\ obs.exh /\ obs.n = 0

\* r = 0 over an empty pool: the empty tuple, then exhaustion
C31_WitnessEmptyTuple ==
    /\ cwr # Idle /\ Len(cwr.pool) = 0 /\ cwr.r = 0 /\ obs.exh /\ obs.n = 1

(***************************************************************************)
(* Properties of permutations: index vector, cycle counters, snapshot      *)
(***************************************************************************)
\* iv holds each of 0..n-1 once
IsPermutation(iv, n) ==
    /\ DOMAIN iv = 1..n
    /\ {iv[j] : j \in 1..n} = 0..(n - 1)

\* C32: between the calls of next() of permutations with r <= n the index
\* vector is a permutation of 0..n-1, and every rotation and every swap the
\* scan can apply to it gives a permutation again; the cycle counter of
\* position i (from 0) lies in 1..n-i; after a call that produced a tuple
\* the snapshot is the first r entries of the index vector and the tuple is
\* the pool at these positions (an empty pool keeps no snapshot: its one
\* tuple is the empty one).
C32_PermutationsState ==
    (permutations # Idle /\ permutations.r <= Len(permutations.pool)) =>
        LET n == Len(permutations.pool)
            r == permutations.r
            indices == permutations.indices
        IN  /\ IsPermutation(indices, n)
            /\ \A i \in 0..(n - 1) :
                  /\ IsPermutation(PermutationsRotate(indices, i, n), n)
                  /\ \A j \in 1..(n - i) :
                        IsPermutation(PermutationsSwap(indices, i, j, n), n)
            /\ DOMAIN permutations.cycles = 1..r
            /\ \A i \in 0..(r - 1) :
                  /\ 1 <= permutations.cycles[i + 1]
                  /\ permutations.cycles[i + 1] <= n - i
            /\ ret.kind = "value" =>
                  /\ permutations.result = None <=> n = 0
                  /\ permutations.result # None =>
                        permutations.result[1] = [k \in 1..r |-> indices[k]]
                  /\ ret.val = [k \in 1..r |-> permutations.pool[indices[k] + 1]]

\* permutations of a three-element pool, r = 2, has produced its fourth
\* tuple (1, 2) after the swap that followed a rotation; the second counter
\* has been reset and decremented
C32_Witness ==
    /\ permutations # Idle
    /\ Len(permutations.pool) = 3 /\ permutations.r = 2
    /\ obs.n = 4 /\ ret.kind = "value"
    /\ permutations.indices = <<1, 2, 0>>
    /\ permutations.result = Some(<<1, 2>>)
    /\ permutations.cycles = <<2, 1>>

(***************************************************************************)
(* Properties of islice: the elements taken from the source                *)
(***************************************************************************)
\* C34 as stated: with a stop bound s and start <= s the number of elements
\* islice has pulled from its source (the position of the source cursor) is
\* never above s, whatever the step and however many calls of next() have
\* been made, those after exhaustion was signalled included.
C34_NeverPullsPastStop ==
    (islice # Idle /\ islice.stop # None /\ obs.start <= islice.stop[1])
        => islice.iterable.pos <= islice.stop[1]

\* What the code keeps to: the elements pulled are never more than the
\* largest target reached, the last produced position plus the step.
IslicePullsUpToTarget ==
    (islice # Idle /\ islice.stop # None /\ obs.start <= islice.stop[1])
        => /\ islice.iterable.pos = islice.cur
           /\ islice.cur <= IF islice.next > islice.stop[1]
                            THEN islice.next ELSE islice.stop[1]

(***************************************************************************)
(* Properties of cycle and zip_longest: sources that go on after they      *)
(* have signalled exhaustion                                               *)
(***************************************************************************)
\* C33 as stated: a call of cycle's next() leaves the buffer alone or
\* appends the value it has just pulled from the source; until the source
\* first signals exhaustion the buffer is the sequence of values produced;
\* once the source has signalled exhaustion no later call changes the buffer.
C33_BufferFrozen ==
    /\ []((cycle # Idle /\ ~obs.stopped) => cycle.saved = obs.out)
    /\ [][cycle # Idle =>
            /\ \/ cycle'.saved = cycle.saved
               \/ /\ ret'.pulled = <<"value">>
                  /\ cycle'.saved = Append(cycle.saved, ret'.val)
            /\ obs.stopped => cycle'.saved = cycle.saved]_vars

\* What the code keeps to: the buffer is the sequence of values the source
\* has produced, those it produced after it had signalled exhaustion
\* included.
CycleBuffersAllPulled ==
    cycle # Idle =>
        cycle.saved = SelectSeq(SubSeq(cycle.iter.items, 1, cycle.iter.pos),
                                LAMBDA v : v # Pauses)

\* C35 as stated: once the source of cycle has signalled exhaustion, no
\* later call of next() pulls from it; once a cursor of zip_longest has
\* signalled exhaustion, no later call of next() pulls from that cursor.
C35_NoPullAfterExhaustion ==
    [][/\ (cycle # Idle /\ obs.stopped) => ret'.pulled = <<>>
       /\ ziplongest # Idle => ret'.pulled \cap obs.stopped = {}]_vars

\* the two halves of C35, and the second one for a source whose exhaustion
\* is sticky and for one that goes on
CycleNoPullAfterExhaustion ==
    [][(cycle # Idle /\ obs.stopped) => ret'.pulled = <<>>]_vars

ZipLongestNoPullAfterExhaustion ==
    [][ziplongest # Idle => ret'.pulled \cap obs.stopped = {}]_vars

\* What the code does: every call of cycle's next() pulls from the source
\* once, and a call of zip_longest's next() pulls every cursor up to the one
\* that ends the call.
PullsEveryTime ==
    [][/\ cycle # Idle => Len(ret'.pulled) = 1
       /\ (ziplongest # Idle /\ ret'.kind = "value")
             => ret'.pulled = 1..Len(ziplongest.iterators)]_vars

=============================================================================
